---- MODULE Spec2Model ----
(***************************************************************************)
(* Model of the communication store of Payever-Mobile-RN:                   *)
(*   CommunicationStore  (store/communication/index.js)                     *)
(*   Conversation        (store/communication/models/Conversation.js)       *)
(* The store is single threaded; every action below is one synchronous      *)
(* run of store code between two suspension points (await / callback).      *)
(***************************************************************************)
EXTENDS Integers, Sequences, FiniteSets, Bags, TLC

\* ------------------------------------------------------------------------
\* Program constants
\* ------------------------------------------------------------------------
MSGS_REQUEST_LIMIT == 30

TYPING_QUIET_MS == 6000

THROTTLE_MS == 5000

\* ------------------------------------------------------------------------
\* Bounds of the model
\* ------------------------------------------------------------------------
MaxFetch == 1

MaxMsgs == 2

MaxTasks == 2

MaxCalls == 1

MaxNow == 1

MaxMsgId == 1

MaxUnread == 2

TickMs == 3000

MaxChannels == 3

\* contacts in one staging set
MaxStaged == 2

\* times an id is given the 'contact-' prefix
MaxPrefixes == 2

\* dates of the messages
MaxDate == 2

\* entries of sendingMessages
MaxSending == 2

\* the messages the server holds of a conversation, at most
MaxHistory == 61

\* ------------------------------------------------------------------------
\* Values
\* ------------------------------------------------------------------------
ConvIds == {1, 2}

GroupIds == {3, 4, 5}

UserIds == {7}

PeerIds == {11, 12}

Bodies == {"hi"}

Limits == {1, MSGS_REQUEST_LIMIT}

NoId == <<"none", 0>>

SrvId(n) == <<"srv", n>>

TmpId(t) == <<"tmp", t>>

Min(a, b) == IF a < b THEN a ELSE b

Max(a, b) == IF a < b THEN b ELSE a

Range(s) == {s[i] : i \in 1..Len(s)}

RECURSIVE SeqFilterIdx(_, _, _)
SeqFilterIdx(s, keep(_), i) ==
  IF i > Len(s) THEN <<>>
  ELSE (IF keep(s[i]) THEN <<s[i]>> ELSE <<>>) \o SeqFilterIdx(s, keep, i + 1)

\* Array.prototype.filter
Filter(s, keep(_)) == SeqFilterIdx(s, keep, 1)

\* Array.prototype.findIndex, 0-based, -1 when absent
FindIndex(s, test(_)) ==
  IF \E i \in 1..Len(s) : test(s[i])
    THEN (CHOOSE i \in 1..Len(s) :
            test(s[i]) /\ \A k \in 1..(i - 1) : ~test(s[k])) - 1
    ELSE -1

VARIABLES
  messengerInfo,           \* roster: conversations and groups summaries
  conversations,           \* map id -> loaded Conversation
  selectedConversationId,  \* 0 stands for null / undefined
  isLoading,
  messageForReply,
  messageForEdit,
  selectedMessages,        \* ids of the messages selected in the chat
  ui,                      \* CommunicationUI: select mode and forward mode
  contactsForAction,       \* contacts staged for a group or an invitation
  selectedContacts,        \* the contacts store's selected contacts
  contactsAutocomplete,    \* results of the contact search
  sendingMessages,
  filesUploadingProgress,  \* map upload key -> percent
  isFileUploading,
  foundMessages,           \* result of the last search of messages
  contactsFilter,
  history,                 \* per conversation: the messages the server holds
  socket,                  \* the channel and what is attached to it
  typingTimer,             \* per loaded Conversation: its debounced updateTypingStatusLazily
  typingThrottle,          \* the throttled updateTypingStatus of the store
  tasks,                   \* bag of the suspended async calls of the store
  jobs,                    \* getConversation calls and their success callbacks
  now,                     \* last value read from Date.now()
  lastOp                   \* the step that was taken last

vars == <<messengerInfo, conversations, selectedConversationId, isLoading,
          messageForReply, messageForEdit, selectedMessages, ui,
          contactsForAction, selectedContacts, contactsAutocomplete,
          sendingMessages, filesUploadingProgress, isFileUploading,
          foundMessages, contactsFilter, history, socket,
          typingTimer, typingThrottle, tasks, jobs, now, lastOp>>

\* the search of messages
searchVars == <<foundMessages, contactsFilter>>

\* the staging sets and the contact search
contactVars == <<contactsForAction, selectedContacts, contactsAutocomplete>>

\* the still-sending messages and the uploads
mediaVars == <<sendingMessages, filesUploadingProgress, isFileUploading>>

\* ------------------------------------------------------------------------
\* MessengerInfo (roster)
\* ------------------------------------------------------------------------
NoInfo == [loaded |-> FALSE, userId |-> 0, conversations |-> <<>>, groups |-> <<>>]

Info(id, type, unread, peer) ==
  [id |-> id, type |-> type, unreadCount |-> unread, userId |-> peer]

\* MessengerInfo.byId: index into conversations \o groups, 0 when absent
RosterAll(info) == info.conversations \o info.groups

byIdx(info, id) ==
  LET all == RosterAll(info)
  IN IF \E i \in 1..Len(all) : all[i].id = id
       THEN CHOOSE i \in 1..Len(all) :
              all[i].id = id /\ \A k \in 1..(i - 1) : all[k].id # id
       ELSE 0

HasInfo(info, id) == info.loaded /\ byIdx(info, id) # 0

byId(info, id) == RosterAll(info)[byIdx(info, id)]

getConversationType(info, id) ==
  IF HasInfo(info, id) THEN byId(info, id).type ELSE "conversation"

\* the roster with entry id changed by f
MapEntry(info, id, f(_)) ==
  [info EXCEPT
     !.conversations = [i \in 1..Len(@) |-> IF @[i].id = id THEN f(@[i]) ELSE @[i]],
     !.groups = [i \in 1..Len(@) |-> IF @[i].id = id THEN f(@[i]) ELSE @[i]]]

UnreadCountOf(info, id) == IF HasInfo(info, id) THEN byId(info, id).unreadCount ELSE 0

\* ------------------------------------------------------------------------
\* Message and Conversation
\* ------------------------------------------------------------------------
\* date: the messages of the server carry their dates in the order of their
\* ids, a temporary message is dated when its id String(Date.now()) is taken
Msg(id, conv, unread, sending, body) ==
  [id |-> id, conv |-> conv, unread |-> unread, isSendingMessage |-> sending,
   body |-> body, date |-> id[2], isFileUploading |-> FALSE]

\* the reply of the transport's getConversation: n messages, the last u unread
ConversationData(id, type, peer, n, u) ==
  [id |-> id, type |-> type,
   messages |-> [i \in 1..n |-> Msg(SrvId(i), id, i > n - u, FALSE, "hi")],
   status |-> [present |-> peer # 0, userId |-> peer, online |-> FALSE]]

isGroup(type) == type \in {"chat-group", "marketing-group"}

\* Conversation.constructor
NewConversation(data) ==
  [id |-> data.id, type |-> data.type, messages |-> data.messages,
   status |-> [present |-> data.status.present, userId |-> data.status.userId,
               online |-> data.status.online, typing |-> FALSE],
   allMessagesFetched |-> FALSE, settings |-> FALSE, members |-> {}]

\* this::debounce(this.updateTypingStatusLazily, 6000) of a new Conversation:
\* no call pending; elapsed is the time since the last call of the debounced
\* function, quiet the time since the last typing push was applied to the
\* Conversation (both stop counting at TYPING_QUIET_MS)
NewTimer == [armed |-> FALSE, elapsed |-> 0, quiet |-> TYPING_QUIET_MS]

\* this::throttle(this.updateTypingStatus, 5000) of a new store (lodash:
\* debounce with leading, trailing and maxWait = wait): never called, no timer;
\* sinceCall and sinceInvoke are the times since the last call and since the
\* last invocation of updateTypingStatus (both stop counting at THROTTLE_MS),
\* remaining the time until the timer fires, lastArgs the conversation id of
\* the call kept for the trailing edge (0 = none)
NewThrottle ==
  [called |-> FALSE, sinceCall |-> THROTTLE_MS, sinceInvoke |-> THROTTLE_MS,
   armed |-> FALSE, remaining |-> 0, lastArgs |-> 0]

\* the store before initSocket: no channel (chan is the serial number of the
\* channel object, handlers the channel the socket handlers were subscribed
\* to last, observers the number of live token subscriptions)
NoSocket == [userId |-> 0, chan |-> 0, handlers |-> 0, observers |-> 0]

\* Conversation.getUnreadIds
getUnreadIds(conv) ==
  LET unread == Filter(conv.messages, LAMBDA m : m.unread)
  IN [i \in 1..Len(unread) |-> unread[i].id]

Loaded == DOMAIN conversations

SelectedLoaded == selectedConversationId \in Loaded

\* ------------------------------------------------------------------------
\* Suspended calls and the step taken last
\* ------------------------------------------------------------------------
Task(kind, pc, id) ==
  [kind |-> kind, pc |-> pc, id |-> id, limit |-> 0, job |-> 0,
   then |-> "none", ids |-> <<>>, body |-> "hi"]

Op(op, id) ==
  [op |-> op, id |-> id, limit |-> 0, job |-> 0, target |-> 0,
   confirms |-> NoId, issued |-> FALSE, again |-> FALSE, stale |-> FALSE,
   n |-> 0, msgs |-> <<>>]

\* the bag of tasks: the order in which suspended calls were made decides
\* nothing, any of them may be resumed next
Add(ts, t) == ts (+) SetToBag({t})

Remove(ts, t) == ts (-) SetToBag({t})

Replace(ts, t, v) == Add(Remove(ts, t), v)

Keep(ts, keep(_)) == [t \in {x \in DOMAIN ts : keep(x)} |-> ts[t]]

Count(ts, test(_)) == BagCardinality(Keep(ts, test))

\* ------------------------------------------------------------------------
\* RequestCache (apiHelper(...).cache(key)): one call in flight per key
\* ------------------------------------------------------------------------
\* a key that also tells the limits apart
CacheKeyPerLimit(userId, id, limit) == <<userId, id, limit>>

\* `communication:conversations:${userId}:${id}`
CacheKey(userId, id, limit) == <<userId, id>>

InFlight(key) == {j \in jobs : j.stage = "transport" /\ j.key = key}

NoData(id, type) == ConversationData(id, type, 0, 0, 0)

\* a getConversation call: its request, then (stage "settings") the reply and
\* the Conversation its success callback has built and not yet stored
\* before: the calls for the same conversation that were started earlier and
\* have not finished; stale: a call started later has stored its result
Job(jid, key, userId, id, limit, type) ==
  [jid |-> jid, key |-> key, userId |-> userId, id |-> id, limit |-> limit,
   type |-> type, stage |-> "transport", data |-> NoData(id, type),
   conv |-> NewConversation(NoData(id, type)),
   before |-> {j.jid : j \in {k \in jobs : k.id = id}}, stale |-> FALSE]

FreeJid == CHOOSE n \in 1..(Cardinality(jobs) + 1) : \A j \in jobs : j.jid # n

\* the calls left when call j is over
Without(j) == {[k EXCEPT !.before = @ \ {j.jid}] : k \in jobs \ {j}}


\* ------------------------------------------------------------------------
\* Initial state: the store after its constructor
\* ------------------------------------------------------------------------
\* the store after its construction
InitStore ==
  /\ messengerInfo = NoInfo
  /\ conversations = <<>>
  /\ selectedConversationId = 0
  /\ isLoading = FALSE
  /\ messageForReply = NoId
  /\ messageForEdit = NoId
  /\ selectedMessages = <<>>
  /\ ui = [selectMode |-> FALSE, forwardMode |-> FALSE]
  /\ contactsForAction = <<>>
  /\ selectedContacts = <<>>
  /\ contactsAutocomplete = <<>>
  /\ sendingMessages = <<>>
  /\ filesUploadingProgress = <<>>
  /\ isFileUploading = FALSE
  /\ foundMessages = <<>>
  /\ contactsFilter = ""
  /\ socket = NoSocket
  /\ typingTimer = <<>>
  /\ typingThrottle = NewThrottle
  /\ tasks = EmptyBag
  /\ jobs = {}
  /\ now = 0
  /\ lastOp = Op("init", 0)

\* the server's histories start empty and grow: a reply holds any number of
\* messages
Init ==
  /\ InitStore
  /\ history = [id \in ConvIds |-> 0]

\* a server whose history of conversation 1 is of any fixed size
InitOlder ==
  /\ InitStore
  /\ history \in {[id \in ConvIds |-> IF id = 1 THEN h ELSE 0] : h \in 0..MaxHistory}

\* ------------------------------------------------------------------------
\* markConversationAsRead, synchronous part
\* ------------------------------------------------------------------------
\* the messages left as they are
ReadMessagesKept(msgs) == msgs

\* conversation.messages.forEach(m => m.unread = false)
ReadMessages(msgs) == [i \in 1..Len(msgs) |-> [msgs[i] EXCEPT !.unread = FALSE]]

\* info.unreadCount = 0
ZeroUnread(e) == [e EXCEPT !.unreadCount = 0]

\* the call issued whatever the ids are
NeedsReadCallAlways(ids) == Len(ids) >= 0

\* if (unreadIds.length > 0)
NeedsReadCall(ids) == Len(ids) > 0

\* the roster info and the task list are passed in: the caller may have
\* changed them earlier in the same synchronous run
MarkReadEffect(id, info, ts) ==
  LET ids == getUnreadIds(conversations[id])
  IN /\ conversations' =
          [conversations EXCEPT ![id].messages = ReadMessages(@)]
     /\ messengerInfo' =
          IF info.loaded THEN MapEntry(info, id, ZeroUnread) ELSE info
     /\ tasks' = IF NeedsReadCall(ids)
                   THEN Add(ts, [Task("read", "socket", id) EXCEPT !.ids = ids])
                   ELSE ts

\* ------------------------------------------------------------------------
\* setSelectedConversationId, synchronous part
\* ------------------------------------------------------------------------
\* the conversation loaded whether it is loaded already or not
SelectEffectAlwaysLoads(id, info, ts) ==
  /\ selectedConversationId' = id
  /\ conversations' = conversations
  /\ messengerInfo' = info
  /\ tasks' = IF id = 0
                THEN ts
                ELSE Add(ts, [Task("load", "socket", id) EXCEPT
                                !.limit = MSGS_REQUEST_LIMIT,
                                !.then = "select"])

SelectEffect(id, info, ts) ==
  /\ selectedConversationId' = id
  /\ IF id = 0
       THEN /\ conversations' = conversations
            /\ messengerInfo' = info
            /\ tasks' = ts
       ELSE IF id \in Loaded
         THEN MarkReadEffect(id, info, ts)
         ELSE /\ conversations' = conversations
              /\ messengerInfo' = info
              /\ tasks' = Add(ts, [Task("load", "socket", id) EXCEPT
                                     !.limit = MSGS_REQUEST_LIMIT,
                                     !.then = "select"])

SetSelectedConversationId(id) ==
  /\ SelectEffect(id, messengerInfo, tasks)
  /\ lastOp' = Op("setSelectedConversationId", id)
  /\ UNCHANGED <<isLoading, messageForReply, messageForEdit,
                 selectedMessages, ui, history, searchVars, contactVars, mediaVars, socket, typingTimer, typingThrottle, jobs, now>>

\* the continuation of setSelectedConversationId after its load resolved
SelectContinue(t) ==
  /\ BagIn(t, tasks)
  /\ t.kind = "load" /\ t.pc = "loaded"
  /\ selectedConversationId' = selectedConversationId
  /\ MarkReadEffect(t.id, messengerInfo, Remove(tasks, t))
  /\ lastOp' = [Op("selectContinue", t.id) EXCEPT
                  !.issued = NeedsReadCall(getUnreadIds(conversations[t.id]))]
  /\ UNCHANGED <<isLoading, messageForReply, messageForEdit,
                 selectedMessages, ui, history, searchVars, contactVars, mediaVars, socket, typingTimer, typingThrottle, jobs, now>>

\* ------------------------------------------------------------------------
\* markConversationAsRead
\* ------------------------------------------------------------------------
MarkConversationAsRead(id) ==
  /\ id # 0
  /\ IF id \in Loaded
       THEN /\ MarkReadEffect(id, messengerInfo, tasks)
            /\ lastOp' = [Op("markConversationAsRead", id) EXCEPT
                            !.issued = tasks' # tasks,
                            !.again = (lastOp.op = "markConversationAsRead"
                                       /\ lastOp.id = id)]
       ELSE \* conversation.getUnreadIds() on undefined: TypeError
            /\ UNCHANGED <<conversations, messengerInfo, tasks>>
            /\ lastOp' = Op("markConversationAsReadThrows", id)
  /\ UNCHANGED <<selectedConversationId, isLoading, messageForReply, messageForEdit,
                 selectedMessages, ui, history, searchVars, contactVars, mediaVars,
                 socket, typingTimer, typingThrottle, jobs, now>>

\* await getSocket() returned: updateMessagesReadStatus is issued
ReadIssue(t) ==
  /\ BagIn(t, tasks)
  /\ t.kind = "read" /\ t.pc = "socket"
  /\ socket.userId # 0
  /\ tasks' = Replace(tasks, t, [t EXCEPT !.pc = "transport"])
  /\ lastOp' = Op("readIssue", t.id)
  /\ UNCHANGED <<messengerInfo, conversations, selectedConversationId, isLoading,
                 messageForReply, messageForEdit,
                 selectedMessages, ui, history, searchVars, contactVars, mediaVars, socket, typingTimer, typingThrottle, jobs, now>>

\* the call settled; .error(log.error) only logs
ReadSettle(t, ok) ==
  /\ BagIn(t, tasks)
  /\ t.kind = "read" /\ t.pc = "transport"
  /\ tasks' = Remove(tasks, t)
  /\ lastOp' = Op(IF ok THEN "readDone" ELSE "readFailed", t.id)
  /\ UNCHANGED <<messengerInfo, conversations, selectedConversationId, isLoading,
                 messageForReply, messageForEdit,
                 selectedMessages, ui, history, searchVars, contactVars, mediaVars, socket, typingTimer, typingThrottle, jobs, now>>

\* ------------------------------------------------------------------------
\* loadConversation
\* ------------------------------------------------------------------------
\* the comparison off by one
AllFetchedOrEqual(count, limit) == count <= limit

\* conversation.allMessagesFetched = data.messages.length < limit
AllFetched(count, limit) == count < limit

\* the call: runs up to `await getSocket()`
LoadConversation(id, limit) ==
  /\ tasks' = Add(tasks, [Task("load", "socket", id) EXCEPT !.limit = limit])
  /\ lastOp' = [Op("loadConversation", id) EXCEPT !.limit = limit]
  /\ UNCHANGED <<messengerInfo, conversations, selectedConversationId, isLoading,
                 messageForReply, messageForEdit,
                 selectedMessages, ui, history, searchVars, contactVars, mediaVars, socket, typingTimer, typingThrottle, jobs, now>>

\* getSocket() returned: the call joins the call in flight under its cache
\* key, or issues socket.getConversation({ id, type, limit })
LoadResume(t) ==
  /\ BagIn(t, tasks)
  /\ t.kind = "load" /\ t.pc = "socket"
  /\ socket.userId # 0
  /\ LET key == CacheKey(socket.userId, t.id, t.limit)
         type == getConversationType(messengerInfo, t.id)
     IN IF InFlight(key) # {}
          THEN LET j == CHOOSE j \in InFlight(key) : TRUE
               IN /\ tasks' = Replace(tasks, t, [t EXCEPT !.pc = "wait", !.job = j.jid])
                  /\ lastOp' = [Op("loadJoin", t.id) EXCEPT !.job = j.jid, !.limit = t.limit]
                  /\ UNCHANGED jobs
          ELSE /\ jobs' = jobs \cup {Job(FreeJid, key, socket.userId, t.id, t.limit, type)}
               /\ tasks' = Replace(tasks, t, [t EXCEPT !.pc = "wait", !.job = FreeJid])
               /\ lastOp' = [Op("loadIssue", t.id) EXCEPT !.job = FreeJid, !.limit = t.limit]
  /\ isLoading' = TRUE
  /\ UNCHANGED <<messengerInfo, conversations, selectedConversationId,
                 messageForReply, messageForEdit,
                 selectedMessages, ui, history, searchVars, contactVars, mediaVars, socket, typingTimer, typingThrottle, now>>

StatusUserOf(id, type) == IF isGroup(type) THEN 0 ELSE id + 10

\* the transport answered with n messages, the last u of them unread: the
\* cache entry is cleared and the success callback runs up to its await
GetConversationAnswered(j, n, u) ==
  /\ j \in jobs /\ j.stage = "transport"
  /\ n \in 0..j.limit /\ u \in 0..n
  /\ LET data == ConversationData(j.id, j.type, StatusUserOf(j.id, j.type), n, u)
         conv == [NewConversation(data) EXCEPT
                    !.allMessagesFetched = AllFetched(Len(data.messages), j.limit)]
     IN jobs' = (jobs \ {j}) \cup
                  {[j EXCEPT !.stage = "settings", !.data = data, !.conv = conv]}
  /\ isLoading' = TRUE
  /\ lastOp' = [Op("getConversationSuccess", j.id) EXCEPT
                  !.job = j.jid, !.limit = j.limit, !.n = n]
  /\ UNCHANGED <<messengerInfo, conversations, selectedConversationId,
                 messageForReply, messageForEdit,
                 selectedMessages, ui, history, searchVars, contactVars, mediaVars, socket, typingTimer, typingThrottle, tasks, now>>

\* a reply of any size up to MaxFetch
GetConversationSuccess(j, n, u) ==
  /\ n <= MaxFetch
  /\ GetConversationAnswered(j, n, u)

\* the reply of a server that holds history[j.id] messages of the conversation
\* and answers with the newest `limit` of them, all read
GetConversationOfHistory(j) ==
  GetConversationAnswered(j, Min(history[j.id], j.limit), 0)

IsWaiting(t, jid) == t.kind = "load" /\ t.pc = "wait" /\ t.job = jid

\* the callers of a failed load get nothing and their continuations end
DropWaiting(jid) == Keep(tasks, LAMBDA t : ~IsWaiting(t, jid))

\* the callers of a finished load get the Conversation; only
\* setSelectedConversationId has something left to do with it
ResolveWaiting(jid) ==
  LET going == {t \in DOMAIN tasks : IsWaiting(t, jid) /\ t.then = "select"}
      resumed == {[t EXCEPT !.pc = "loaded", !.job = 0] : t \in going}
  IN DropWaiting(jid) (+)
       [r \in resumed |->
          BagCardinality(Keep(tasks, LAMBDA t : t \in going
                                               /\ [t EXCEPT !.pc = "loaded", !.job = 0] = r))]

GetConversationFailure(j) ==
  /\ j \in jobs /\ j.stage = "transport"
  /\ jobs' = Without(j)
  /\ tasks' = DropWaiting(j.jid)
  /\ isLoading' = FALSE
  /\ lastOp' = [Op("getConversationFailure", j.id) EXCEPT !.job = j.jid]
  /\ UNCHANGED <<messengerInfo, conversations, selectedConversationId,
                 messageForReply, messageForEdit,
                 selectedMessages, ui, history, searchVars, contactVars, mediaVars, socket, typingTimer, typingThrottle, now>>

\* this.conversations.merge({ [id]: observable(conversation) })
Merge(map, id, conv) == [k \in (DOMAIN map) \cup {id} |-> IF k = id THEN conv ELSE map[k]]

\* the settings arrived: the callback stores the Conversation and returns it
SettingsSuccess(j) ==
  /\ j \in jobs /\ j.stage = "settings"
  /\ conversations' = Merge(conversations, j.id, [j.conv EXCEPT !.settings = TRUE])
  /\ typingTimer' = Merge(typingTimer, j.id, NewTimer)
  /\ jobs' = {IF k.jid \in j.before THEN [k EXCEPT !.stale = TRUE] ELSE k :
                 k \in Without(j)}
  /\ tasks' = ResolveWaiting(j.jid)
  /\ isLoading' = FALSE
  /\ lastOp' = [Op("loadStored", j.id) EXCEPT
                  !.job = j.jid, !.limit = j.limit, !.n = Len(j.data.messages),
                  !.msgs = j.data.messages, !.stale = j.stale]
  /\ UNCHANGED <<messengerInfo, selectedConversationId, messageForReply, messageForEdit,
                 selectedMessages, ui, history, searchVars, contactVars, mediaVars, socket,
                 typingThrottle, now>>

SettingsFailure(j) ==
  /\ j \in jobs /\ j.stage = "settings"
  /\ jobs' = Without(j)
  /\ tasks' = DropWaiting(j.jid)
  /\ isLoading' = FALSE
  /\ lastOp' = [Op("settingsFailure", j.id) EXCEPT !.job = j.jid]
  /\ UNCHANGED <<messengerInfo, conversations, selectedConversationId,
                 messageForReply, messageForEdit,
                 selectedMessages, ui, history, searchVars, contactVars, mediaVars, socket, typingTimer, typingThrottle, now>>

\* ------------------------------------------------------------------------
\* loadOlderMessages
\* ------------------------------------------------------------------------
\* the guard without its allMessagesFetched test
OlderGuardLoadingOnly(id) ==
  /\ id \in Loaded
  /\ ~isLoading

OlderGuard(id) ==
  /\ id \in Loaded
  /\ ~(conversations[id].allMessagesFetched \/ isLoading)

\* every call asks for the first page again
LoadOlderMessagesFirstPage(id) ==
  /\ IF OlderGuard(id)
       THEN /\ tasks' = Add(tasks, [Task("load", "socket", id) EXCEPT
                                      !.limit = MSGS_REQUEST_LIMIT])
            /\ lastOp' = [Op("loadOlderMessages", id) EXCEPT
                            !.issued = TRUE, !.limit = MSGS_REQUEST_LIMIT]
       ELSE /\ tasks' = tasks
            /\ lastOp' = Op("loadOlderMessages", id)
  /\ UNCHANGED <<messengerInfo, conversations, selectedConversationId, isLoading,
                 messageForReply, messageForEdit,
                 selectedMessages, ui, history, searchVars, contactVars, mediaVars, socket, typingTimer, typingThrottle, jobs, now>>

LoadOlderMessages(id) ==
  /\ IF OlderGuard(id)
       THEN LET newMsgsLimit == Len(conversations[id].messages) + MSGS_REQUEST_LIMIT
            IN /\ tasks' = Add(tasks, [Task("load", "socket", id) EXCEPT
                                         !.limit = newMsgsLimit])
               /\ lastOp' = [Op("loadOlderMessages", id) EXCEPT
                               !.issued = TRUE, !.limit = newMsgsLimit]
       ELSE /\ tasks' = tasks
            /\ lastOp' = Op("loadOlderMessages", id)
  /\ UNCHANGED <<messengerInfo, conversations, selectedConversationId, isLoading,
                 messageForReply, messageForEdit,
                 selectedMessages, ui, history, searchVars, contactVars, mediaVars, socket, typingTimer, typingThrottle, jobs, now>>

\* ------------------------------------------------------------------------
\* loadMessengerInfo and initSocket
\* ------------------------------------------------------------------------
\* the replies of messenger.getBusiness / getPrivate used by the core runs
CoreRosters ==
  {[loaded |-> TRUE, userId |-> 7,
    conversations |-> <<Info(1, "conversation", c, 11)>> \o rest,
    groups |-> <<>>] :
     c \in 0..1, rest \in {<<>>, <<Info(2, "conversation", 0, 12)>>}}

\* a new channel opened whatever the user of the existing one is
initSocketAlways(sock, userId) ==
  [userId |-> userId, chan |-> sock.chan + 1, handlers |-> sock.chan + 1,
   observers |-> 1]

\* the previous token subscription left alive
initSocketNoDispose(sock, userId) ==
  IF sock.userId # 0 /\ sock.userId = userId
    THEN sock
    ELSE [userId |-> userId, chan |-> sock.chan + 1, handlers |-> sock.chan + 1,
          observers |-> sock.observers + 1]

\* initSocket: a channel for the same user is kept; else a channel is opened,
\* the handlers are subscribed to it, the previous autorun is disposed and a
\* new one created
initSocket(sock, userId) ==
  IF sock.userId # 0 /\ sock.userId = userId
    THEN sock
    ELSE [userId |-> userId, chan |-> sock.chan + 1, handlers |-> sock.chan + 1,
          observers |-> (IF sock.observers > 0 THEN sock.observers - 1
                                               ELSE sock.observers) + 1]

\* the call
InitSocket(userId) ==
  /\ socket.chan < MaxChannels \/ socket.userId = userId
  /\ socket' = initSocket(socket, userId)
  /\ lastOp' = [Op("initSocket", userId) EXCEPT
                  !.again = (socket.userId # 0 /\ socket.userId = userId)]
  /\ UNCHANGED <<messengerInfo, conversations, selectedConversationId, isLoading,
                 messageForReply, messageForEdit,
                 selectedMessages, ui, history, searchVars, contactVars, mediaVars, typingTimer, typingThrottle, tasks, jobs, now>>

\* auth's access token changes: every live autorun runs again and calls
\* this.socket.setAccessToken, n times in all, on the channel of this.socket
TokenChange ==
  /\ lastOp' = [Op("tokenChange", socket.chan) EXCEPT !.n = socket.observers]
  /\ UNCHANGED <<messengerInfo, conversations, selectedConversationId, isLoading,
                 messageForReply, messageForEdit,
                 selectedMessages, ui, history, searchVars, contactVars, mediaVars, socket, typingTimer, typingThrottle, tasks, jobs,
                 now>>

\* MessengerInfo.getDefaultConversation
getDefaultConversation(info) == info.conversations[1]

\* the call: one request per cache key 'communication:messengerInfo:' + profile.id
LoadMessengerInfoEffect(ts) ==
  IF \E t \in DOMAIN ts : t.kind = "info"
    THEN ts
    ELSE Add(ts, Task("info", "transport", 0))

LoadMessengerInfo ==
  /\ tasks' = LoadMessengerInfoEffect(tasks)
  /\ isLoading' = TRUE
  /\ lastOp' = Op("loadMessengerInfo", 0)
  /\ UNCHANGED <<messengerInfo, conversations, selectedConversationId,
                 messageForReply, messageForEdit,
                 selectedMessages, ui, history, searchVars, contactVars, mediaVars, socket, typingTimer, typingThrottle, jobs, now>>

\* the success callback
LoadMessengerInfoSuccess(t, data, phoneMode) ==
  /\ BagIn(t, tasks)
  /\ t.kind = "info"
  /\ socket.chan < MaxChannels \/ socket.userId = data.userId
  /\ socket' = initSocket(socket, data.userId)
  /\ IF ~phoneMode /\ selectedConversationId = 0
       THEN SelectEffect(getDefaultConversation(data).id, data, Remove(tasks, t))
       ELSE /\ messengerInfo' = data
            /\ tasks' = Remove(tasks, t)
            /\ UNCHANGED <<conversations, selectedConversationId>>
  /\ isLoading' = FALSE
  /\ lastOp' = Op("messengerInfoLoaded", 0)
  /\ UNCHANGED <<messageForReply, messageForEdit,
                 selectedMessages, ui, history, searchVars, contactVars, mediaVars, typingTimer, typingThrottle, jobs, now>>

\* ------------------------------------------------------------------------
\* sendMessage and addSendingMessage
\* ------------------------------------------------------------------------
\* the conversation addSendingMessage appends to: this.selectedConversation
SendTarget(conversationId) == selectedConversationId

\* messages.concat(sendMessage)
addSendingMessage(msgs, stamp, body) ==
  Append(msgs, Msg(TmpId(stamp), selectedConversationId, FALSE, TRUE, body))

\* the call: runs up to `await getSocket()`
SendMessage(conversationId, body) ==
  /\ tasks' = Add(tasks, [Task("send", "socket", conversationId) EXCEPT !.body = body])
  /\ lastOp' = Op("sendMessageCall", conversationId)
  /\ UNCHANGED <<messengerInfo, conversations, selectedConversationId, isLoading,
                 messageForReply, messageForEdit,
                 selectedMessages, ui, history, searchVars, contactVars, mediaVars, socket, typingTimer, typingThrottle, jobs, now>>

\* getSocket() returned; stamp is the value of Date.now()
SendResume(t, stamp) ==
  /\ BagIn(t, tasks)
  /\ t.kind = "send" /\ t.pc = "socket"
  /\ socket.userId # 0
  /\ stamp \in now..MaxNow
  /\ tasks' = Remove(tasks, t)
  /\ LET target == SendTarget(t.id)
     IN IF target \in Loaded
          THEN /\ Len(conversations[target].messages) < MaxMsgs
               /\ conversations' =
                    [conversations EXCEPT
                       ![target].messages = addSendingMessage(@, stamp, t.body)]
               /\ messageForReply' = NoId
               /\ now' = stamp
               /\ lastOp' = [Op("sendMessage", t.id) EXCEPT !.target = target]
          ELSE \* this.selectedConversation is undefined: TypeError
               /\ UNCHANGED <<conversations, messageForReply, now>>
               /\ lastOp' = Op("sendMessageThrows", t.id)
  /\ UNCHANGED <<messengerInfo, selectedConversationId, isLoading, messageForEdit,
                 selectedMessages, ui, history, searchVars, contactVars, mediaVars, socket, typingTimer, typingThrottle, jobs>>

\* a message without a date field
NoDate == -1

\* ------------------------------------------------------------------------
\* sendMessageWithMedias and the progress of the uploads
\* ------------------------------------------------------------------------
\* the percentages the transport reports
ProgressValues == {0, 50, 100, 120}

\* the message shown while the file is uploaded: it has no date, no body and
\* no conversation
uploadMessage(stamp) ==
  [Msg(TmpId(stamp), 0, FALSE, FALSE, "") EXCEPT
     !.date = NoDate, !.isFileUploading = TRUE]

\* the call: runs up to `await messenger.sendMessageWithMedias(...)`;
\* stamp is the value of Date.now(); without messengerInfo or without a
\* loaded selected Conversation: TypeError
SendMessageWithMedias(conversationId, stamp) ==
  /\ stamp \in now..MaxNow
  /\ IF messengerInfo.loaded /\ SelectedLoaded
       THEN /\ Len(conversations[selectedConversationId].messages) < MaxMsgs
            /\ conversations' =
                 [conversations EXCEPT
                    ![selectedConversationId].messages =
                       @ \o <<uploadMessage(stamp)>>]
            /\ isFileUploading' = TRUE
            /\ filesUploadingProgress' =
                 Merge(filesUploadingProgress, TmpId(stamp), 0)
            /\ now' = stamp
            /\ tasks' = Add(tasks, [Task("upload", "transport", conversationId)
                                      EXCEPT !.ids = <<TmpId(stamp)>>])
            /\ lastOp' = [Op("sendMessageWithMedias", conversationId)
                            EXCEPT !.confirms = TmpId(stamp)]
       ELSE /\ UNCHANGED <<conversations, isFileUploading,
                           filesUploadingProgress, now, tasks>>
            /\ lastOp' = Op("sendMessageWithMediasThrows", conversationId)
  /\ UNCHANGED <<messengerInfo, selectedConversationId, isLoading,
                 messageForReply, messageForEdit, selectedMessages, ui, history, searchVars,
                 contactVars, sendingMessages, socket,
                 typingTimer, typingThrottle, jobs>>

\* the upload settled; a failure is logged
SendMessageWithMediasSettle(t) ==
  /\ BagIn(t, tasks)
  /\ t.kind = "upload"
  /\ tasks' = Remove(tasks, t)
  /\ lastOp' = Op("sendMessageWithMediasSettled", t.id)
  /\ UNCHANGED <<messengerInfo, conversations, selectedConversationId, isLoading,
                 messageForReply, messageForEdit, selectedMessages, ui, history, searchVars,
                 contactVars, mediaVars, socket,
                 typingTimer, typingThrottle, jobs, now>>

\* the value stored whatever it is
updateFileUploadProgressAsGiven(map, key, value) ==
  IF key \in DOMAIN map THEN [map EXCEPT ![key] = value] ELSE map

updateFileUploadProgress(map, key, value) ==
  IF key \in DOMAIN map
    THEN IF value >= 100
           THEN [map EXCEPT ![key] = 100]
           ELSE [map EXCEPT ![key] = value]
    ELSE map

UpdateFileUploadProgress(progressId, value) ==
  /\ filesUploadingProgress' =
       updateFileUploadProgress(filesUploadingProgress, progressId, value)
  /\ lastOp' = [Op("updateFileUploadProgress", 0) EXCEPT
                  !.confirms = progressId, !.n = value]
  /\ UNCHANGED <<messengerInfo, conversations, selectedConversationId, isLoading,
                 messageForReply, messageForEdit, selectedMessages, ui, history, searchVars,
                 contactVars, sendingMessages, isFileUploading, socket,
                 typingTimer, typingThrottle, tasks, jobs, now>>

\* ObservableMap.delete
RemoveFileUploadingProgress(progressId) ==
  /\ filesUploadingProgress' =
       [k \in (DOMAIN filesUploadingProgress) \ {progressId} |->
          filesUploadingProgress[k]]
  /\ lastOp' = [Op("removeFileUploadingProgress", 0) EXCEPT
                  !.confirms = progressId]
  /\ UNCHANGED <<messengerInfo, conversations, selectedConversationId, isLoading,
                 messageForReply, messageForEdit, selectedMessages, ui, history, searchVars,
                 contactVars, sendingMessages, isFileUploading, socket,
                 typingTimer, typingThrottle, tasks, jobs, now>>

\* ------------------------------------------------------------------------
\* conversationMessages
\* ------------------------------------------------------------------------
\* moment(m.date); moment(undefined) is the time of the call
momentOf(m) == IF m.date = NoDate THEN now ELSE m.date

\* the newest message last
sortMessagesByDateAsc(m1, m2) ==
  IF momentOf(m1) = momentOf(m2) THEN 0
  ELSE IF momentOf(m1) < momentOf(m2) THEN -1 ELSE 1

sortMessagesByDate(m1, m2) ==
  IF momentOf(m1) = momentOf(m2) THEN 0
  ELSE IF momentOf(m1) < momentOf(m2) THEN 1 ELSE -1

\* Array.prototype.sort with sortMessagesByDate: m is put behind every
\* message that does not compare as coming after it
RECURSIVE InsertByDate(_, _)
InsertByDate(sorted, m) ==
  IF sorted = <<>> THEN <<m>>
  ELSE IF sortMessagesByDate(sorted[1], m) <= 0
         THEN <<sorted[1]>> \o InsertByDate(Tail(sorted), m)
         ELSE <<m>> \o sorted

RECURSIVE SortByDate(_, _)
SortByDate(sorted, rest) ==
  IF rest = <<>> THEN sorted
  ELSE SortByDate(InsertByDate(sorted, rest[1]), Tail(rest))

\* this.sendingMessages.filter(m => m.conversation.id === selectedConversationId)
SendingOfSelected ==
  SelectSeq(sendingMessages, LAMBDA m : m.conv = selectedConversationId)

\* the getter: slice, concat, sort
conversationMessages ==
  SortByDate(<<>>, conversations[selectedConversationId].messages
                     \o SendingOfSelected)

\* the getter is read; this.selectedConversation undefined: TypeError
ReadConversationMessages ==
  /\ lastOp' = IF SelectedLoaded
                 THEN [Op("conversationMessages", selectedConversationId)
                         EXCEPT !.msgs = conversationMessages]
                 ELSE Op("conversationMessagesThrows", selectedConversationId)
  /\ UNCHANGED <<messengerInfo, conversations, selectedConversationId, isLoading,
                 messageForReply, messageForEdit, selectedMessages, ui, history, searchVars,
                 contactVars, mediaVars, socket,
                 typingTimer, typingThrottle, tasks, jobs, now>>

\* a message of the given date
DatedMsg(id, conv, sending, date) ==
  [Msg(id, conv, FALSE, sending, "hi") EXCEPT !.date = date]

\* the message lists a loaded Conversation can hold: up to MaxMsgs messages
\* in any order of their dates, some of them without a date
ViewMessages(conv) ==
  UNION {{[i \in 1..n |-> DatedMsg(SrvId(i), conv, FALSE, d[i])] :
            d \in [1..n -> (0..MaxDate) \cup {NoDate}]} : n \in 0..MaxMsgs}

\* the still-sending messages, of any conversation
ViewSending ==
  UNION {{[i \in 1..n |-> DatedMsg(TmpId(i), c[i], TRUE, d[i])] :
            d \in [1..n -> 0..MaxDate], c \in [1..n -> ConvIds]} :
          n \in 0..MaxSending}

\* conversations 1 and 2 are loaded, one of them or none is selected, and the
\* two lists hold any messages
InitView ==
  /\ messengerInfo = NoInfo
  /\ \E msgs \in ViewMessages(1) :
       conversations =
         [id \in ConvIds |->
            [NewConversation(NoData(id, "conversation"))
               EXCEPT !.messages = IF id = 1 THEN msgs ELSE <<>>]]
  /\ selectedConversationId \in {0} \cup ConvIds
  /\ isLoading = FALSE
  /\ messageForReply = NoId
  /\ messageForEdit = NoId
  /\ selectedMessages = <<>>
  /\ ui = [selectMode |-> FALSE, forwardMode |-> FALSE]
  /\ contactsForAction = <<>>
  /\ selectedContacts = <<>>
  /\ contactsAutocomplete = <<>>
  /\ sendingMessages \in ViewSending
  /\ filesUploadingProgress = <<>>
  /\ isFileUploading = FALSE
  /\ foundMessages = <<>>
  /\ contactsFilter = ""
  /\ history = [id \in ConvIds |-> 0]
  /\ socket = NoSocket
  /\ typingTimer = [id \in ConvIds |-> NewTimer]
  /\ typingThrottle = NewThrottle
  /\ tasks = EmptyBag
  /\ jobs = {}
  /\ now = MaxDate
  /\ lastOp = Op("init", 0)

\* ------------------------------------------------------------------------
\* Reply target, edit target, message selection and the modes of the chat
\* ------------------------------------------------------------------------
\* the messages the user can pick in the chat
ComposeIds == {SrvId(k) : k \in 1..(MaxMsgId + 1)}

\* the reply target set and nothing cleared
SetMessageForReplyOnly(message) ==
  /\ messageForReply' = message
  /\ lastOp' = [Op("setMessageForReply", message[2]) EXCEPT
                  !.issued = (messageForEdit # NoId /\ selectedMessages # <<>>
                              /\ ui.selectMode /\ ui.forwardMode)]
  /\ UNCHANGED <<messengerInfo, conversations, selectedConversationId, isLoading,
                 messageForEdit, selectedMessages, ui, history, searchVars, contactVars, mediaVars, socket, typingTimer,
                 typingThrottle, tasks, jobs, now>>

\* removeMessageForEdit, clearSelectedMessages, ui.setSelectMode(false),
\* ui.setForwardMode(false), then the reply target is set
SetMessageForReply(message) ==
  /\ messageForEdit' = NoId
  /\ selectedMessages' = <<>>
  /\ ui' = [ui EXCEPT !.selectMode = FALSE, !.forwardMode = FALSE]
  /\ messageForReply' = message
  /\ lastOp' = [Op("setMessageForReply", message[2]) EXCEPT
                  !.issued = (messageForEdit # NoId /\ selectedMessages # <<>>
                              /\ ui.selectMode /\ ui.forwardMode)]
  /\ UNCHANGED <<messengerInfo, conversations, selectedConversationId, isLoading,
                 history, searchVars, contactVars, mediaVars,
                 socket, typingTimer, typingThrottle, tasks, jobs, now>>

RemoveMessageForReply ==
  /\ messageForReply' = NoId
  /\ lastOp' = Op("removeMessageForReply", 0)
  /\ UNCHANGED <<messengerInfo, conversations, selectedConversationId, isLoading,
                 messageForEdit, selectedMessages, ui, history, searchVars, contactVars, mediaVars, socket, typingTimer,
                 typingThrottle, tasks, jobs, now>>

SetMessageForEdit(message) ==
  /\ messageForEdit' = message
  /\ lastOp' = Op("setMessageForEdit", message[2])
  /\ UNCHANGED <<messengerInfo, conversations, selectedConversationId, isLoading,
                 messageForReply, selectedMessages, ui, history, searchVars, contactVars, mediaVars, socket, typingTimer,
                 typingThrottle, tasks, jobs, now>>

RemoveMessageForEdit ==
  /\ messageForEdit' = NoId
  /\ lastOp' = Op("removeMessageForEdit", 0)
  /\ UNCHANGED <<messengerInfo, conversations, selectedConversationId, isLoading,
                 messageForReply, selectedMessages, ui, history, searchVars, contactVars, mediaVars, socket, typingTimer,
                 typingThrottle, tasks, jobs, now>>

\* checkMessageSelected
checkMessageSelected(messageId) ==
  \E i \in 1..Len(selectedMessages) : selectedMessages[i] = messageId

SelectMessage(message) ==
  /\ selectedMessages' = IF checkMessageSelected(message)
                           THEN selectedMessages
                           ELSE Append(selectedMessages, message)
  /\ lastOp' = Op("selectMessage", message[2])
  /\ UNCHANGED <<messengerInfo, conversations, selectedConversationId, isLoading,
                 messageForReply, messageForEdit, ui, history, searchVars, contactVars, mediaVars, socket, typingTimer,
                 typingThrottle, tasks, jobs, now>>

DeselectMessage(messageId) ==
  /\ selectedMessages' = SelectSeq(selectedMessages, LAMBDA m : m # messageId)
  /\ lastOp' = Op("deselectMessage", messageId[2])
  /\ UNCHANGED <<messengerInfo, conversations, selectedConversationId, isLoading,
                 messageForReply, messageForEdit, ui, history, searchVars, contactVars, mediaVars, socket, typingTimer,
                 typingThrottle, tasks, jobs, now>>

\* CommunicationUI.setSelectMode / setForwardMode
SetModes(selectMode, forwardMode) ==
  /\ ui' = [selectMode |-> selectMode, forwardMode |-> forwardMode]
  /\ lastOp' = Op("setModes", 0)
  /\ UNCHANGED <<messengerInfo, conversations, selectedConversationId, isLoading,
                 messageForReply, messageForEdit, selectedMessages, socket,
                 history, searchVars, contactVars, mediaVars,
                 typingTimer, typingThrottle, tasks, jobs, now>>

\* ------------------------------------------------------------------------
\* Contacts staged for a group or an invitation
\* ------------------------------------------------------------------------
\* the contacts the user can stage
ContactIds == {21, 22}

\* a contact; its id is the string of `prefixes` times 'contact-' followed by
\* the number
Contact(id) == [id |-> id, prefixes |-> 0, savedId |-> 0]

checkContactAddedForAction(contactId) ==
  \E i \in 1..Len(contactsForAction) :
    \/ contactsForAction[i].id = contactId /\ contactsForAction[i].prefixes = 0
    \/ contactsForAction[i].savedId = contactId

AddContactForAction(contact) ==
  /\ Len(contactsForAction) < MaxStaged
  /\ contactsForAction' = IF checkContactAddedForAction(contact.id)
                            THEN contactsForAction
                            ELSE Append(contactsForAction, contact)
  /\ lastOp' = Op("addContactForAction", contact.id)
  /\ UNCHANGED <<messengerInfo, conversations, selectedConversationId, isLoading,
                 messageForReply, messageForEdit, selectedMessages, ui, history, searchVars,
                 selectedContacts, contactsAutocomplete, mediaVars, socket,
                 typingTimer, typingThrottle, tasks, jobs, now>>

RemoveContactForAction(contactId) ==
  /\ contactsForAction' =
       SelectSeq(contactsForAction,
                 LAMBDA c : ~(c.id = contactId /\ c.prefixes = 0))
  /\ lastOp' = Op("removeContactForAction", contactId)
  /\ UNCHANGED <<messengerInfo, conversations, selectedConversationId, isLoading,
                 messageForReply, messageForEdit, selectedMessages, ui, history, searchVars,
                 selectedContacts, contactsAutocomplete, mediaVars, socket,
                 typingTimer, typingThrottle, tasks, jobs, now>>

\* the contacts store: a contact is ticked in the list of contacts
SelectContact(contact) ==
  /\ Len(selectedContacts) < MaxStaged
  /\ \A i \in 1..Len(selectedContacts) : selectedContacts[i].id # contact.id
  /\ selectedContacts' = Append(selectedContacts, contact)
  /\ lastOp' = Op("selectContact", contact.id)
  /\ UNCHANGED <<messengerInfo, conversations, selectedConversationId, isLoading,
                 messageForReply, messageForEdit, selectedMessages, ui, history, searchVars,
                 contactsForAction, contactsAutocomplete, mediaVars, socket,
                 typingTimer, typingThrottle, tasks, jobs, now>>

\* searchContactsAutocomplete: the call; messengerInfo undefined: TypeError
SearchContactsAutocomplete ==
  /\ IF messengerInfo.loaded
       THEN /\ tasks' = Add(tasks, Task("contactSearch", "transport", 0))
            /\ isLoading' = TRUE
            /\ lastOp' = Op("searchContactsAutocomplete", 0)
       ELSE /\ UNCHANGED <<tasks, isLoading>>
            /\ lastOp' = Op("searchContactsAutocompleteThrows", 0)
  /\ UNCHANGED <<messengerInfo, conversations, selectedConversationId,
                 messageForReply, messageForEdit, selectedMessages, ui, history,
                 searchVars, contactVars, mediaVars, socket,
                 typingTimer, typingThrottle, jobs, now>>

\* its success callback
SearchContactsAutocompleteSuccess(t, data) ==
  /\ BagIn(t, tasks)
  /\ t.kind = "contactSearch"
  /\ tasks' = Remove(tasks, t)
  /\ contactsAutocomplete' = data
  /\ isLoading' = FALSE
  /\ lastOp' = Op("contactSearchDone", 0)
  /\ UNCHANGED <<messengerInfo, conversations, selectedConversationId,
                 messageForReply, messageForEdit, selectedMessages, ui, history,
                 searchVars, contactsForAction, selectedContacts, mediaVars,
                 socket, typingTimer, typingThrottle, jobs, now>>

\* the results dropped when the request fails
SearchContactsAutocompleteFailureClears(t) ==
  /\ BagIn(t, tasks)
  /\ t.kind = "contactSearch"
  /\ tasks' = Remove(tasks, t)
  /\ contactsAutocomplete' = <<>>
  /\ isLoading' = FALSE
  /\ lastOp' = Op("contactSearchFailed", 0)
  /\ UNCHANGED <<messengerInfo, conversations, selectedConversationId,
                 messageForReply, messageForEdit, selectedMessages, ui, history,
                 searchVars, contactsForAction, selectedContacts, mediaVars,
                 socket, typingTimer, typingThrottle, jobs, now>>

\* .error(log.error): the request failed
SearchContactsAutocompleteFailure(t) ==
  /\ BagIn(t, tasks)
  /\ t.kind = "contactSearch"
  /\ tasks' = Remove(tasks, t)
  /\ isLoading' = FALSE
  /\ lastOp' = Op("contactSearchFailed", 0)
  /\ UNCHANGED <<messengerInfo, conversations, selectedConversationId,
                 messageForReply, messageForEdit, selectedMessages, ui, history,
                 searchVars, contactVars, mediaVars,
                 socket, typingTimer, typingThrottle, jobs, now>>

\* ------------------------------------------------------------------------
\* search and searchMessages
\* ------------------------------------------------------------------------
\* what the user types into the filter
Queries == {"", "a"}

\* data.messages of the reply to searchMessages
FoundResults == {<<>>, <<Msg(SrvId(1), 1, FALSE, FALSE, "hi")>>}

\* search(text): an empty text clears the result, any other text goes on to
\* searchMessages, which runs up to `await getSocket()`
Search(text) ==
  /\ contactsFilter' = text
  /\ IF text = ""
       THEN /\ foundMessages' = <<>>
            /\ tasks' = tasks
       ELSE /\ foundMessages' = foundMessages
            /\ tasks' = Add(tasks, Task("search", "socket", 0))
  /\ lastOp' = [Op("search", 0) EXCEPT !.issued = (text # "")]
  /\ UNCHANGED <<messengerInfo, conversations, selectedConversationId, isLoading,
                 messageForReply, messageForEdit, selectedMessages, ui, history,
                 contactVars, mediaVars, socket,
                 typingTimer, typingThrottle, jobs, now>>

\* getSocket() returned: socket.searchMessages(query) is issued
SearchMessagesIssue(t) ==
  /\ BagIn(t, tasks)
  /\ t.kind = "search" /\ t.pc = "socket"
  /\ socket.userId # 0
  /\ tasks' = Replace(tasks, t, [t EXCEPT !.pc = "transport"])
  /\ lastOp' = Op("searchMessagesIssue", 0)
  /\ UNCHANGED <<messengerInfo, conversations, selectedConversationId, isLoading,
                 messageForReply, messageForEdit, selectedMessages, ui, history,
                 searchVars, contactVars, mediaVars, socket,
                 typingTimer, typingThrottle, jobs, now>>

\* the success callback
SearchMessagesSuccess(t, data) ==
  /\ BagIn(t, tasks)
  /\ t.kind = "search" /\ t.pc = "transport"
  /\ tasks' = Remove(tasks, t)
  /\ foundMessages' = data
  /\ lastOp' = Op("searchMessagesDone", 0)
  /\ UNCHANGED <<messengerInfo, conversations, selectedConversationId, isLoading,
                 messageForReply, messageForEdit, selectedMessages, ui, history,
                 contactsFilter, contactVars, mediaVars, socket,
                 typingTimer, typingThrottle, jobs, now>>

\* the request failed: no callback is registered for it
SearchMessagesFailure(t) ==
  /\ BagIn(t, tasks)
  /\ t.kind = "search" /\ t.pc = "transport"
  /\ tasks' = Remove(tasks, t)
  /\ lastOp' = Op("searchMessagesFailed", 0)
  /\ UNCHANGED <<messengerInfo, conversations, selectedConversationId, isLoading,
                 messageForReply, messageForEdit, selectedMessages, ui, history,
                 searchVars, contactVars, mediaVars, socket,
                 typingTimer, typingThrottle, jobs, now>>

ClearFoundMessages ==
  /\ foundMessages' = <<>>
  /\ lastOp' = Op("clearFoundMessages", 0)
  /\ UNCHANGED <<messengerInfo, conversations, selectedConversationId, isLoading,
                 messageForReply, messageForEdit, selectedMessages, ui, history,
                 contactsFilter, contactVars, mediaVars, socket,
                 typingTimer, typingThrottle, tasks, jobs, now>>

\* a piece of the recipients string: the separator or one identifier
\* the recipients are kept as the sequence of the pieces the string is put
\* together from; the separator ',' is the piece of no contact
Comma == [id |-> 0, prefixes |-> 0]

IdPiece(contact, added) ==
  [id |-> contact.id, prefixes |-> contact.prefixes + added]

\* reduce((result, contact, index) => result + id + (last ? '' : ','), ...)
RECURSIVE JoinFrom(_, _, _)
JoinFrom(cs, i, added) ==
  IF i > Len(cs) THEN <<>>
  ELSE <<IdPiece(cs[i], added)>>
         \o (IF Len(cs) # i THEN <<Comma>> ELSE <<>>)
         \o JoinFrom(cs, i + 1, added)

\* the recipients of createNewGroup
GroupRecipients ==
  JoinFrom(contactsForAction, 1, 0)
    \o (IF Len(selectedContacts) = 0 THEN <<>> ELSE <<Comma>>)
    \o JoinFrom(selectedContacts, 1, 1)

\* the call of createNewGroup; messengerInfo undefined: TypeError
CreateNewGroup ==
  /\ IF messengerInfo.loaded
       THEN /\ tasks' = Add(tasks, [Task("createGroup", "transport", 0)
                                      EXCEPT !.ids = GroupRecipients])
            /\ lastOp' = [Op("createNewGroup", 0) EXCEPT !.msgs = GroupRecipients]
       ELSE /\ tasks' = tasks
            /\ lastOp' = Op("createNewGroupThrows", 0)
  /\ UNCHANGED <<messengerInfo, conversations, selectedConversationId, isLoading,
                 messageForReply, messageForEdit, selectedMessages, ui, history, searchVars,
                 contactVars, mediaVars, socket,
                 typingTimer, typingThrottle, jobs, now>>

\* .success().complete(...): the request settled, ok or not
CreateNewGroupComplete(t, ok) ==
  /\ BagIn(t, tasks)
  /\ t.kind = "createGroup"
  /\ tasks' = Remove(tasks, t)
  /\ contactsForAction' = <<>>
  /\ selectedContacts' = <<>>
  /\ lastOp' = [Op("createNewGroupComplete", 0) EXCEPT !.issued = ok]
  /\ UNCHANGED <<messengerInfo, conversations, selectedConversationId, isLoading,
                 messageForReply, messageForEdit, selectedMessages, ui, history, searchVars,
                 contactsAutocomplete, mediaVars, socket,
                 typingTimer, typingThrottle, jobs, now>>

\* m.id = `contact-${m.id}` on every selected contact
Prefixed(cs) ==
  [i \in 1..Len(cs) |-> [cs[i] EXCEPT !.prefixes = @ + 1]]

\* the recipients of sendInviteMsgToContacts
InviteRecipients ==
  JoinFrom(Prefixed(selectedContacts) \o contactsForAction, 1, 0)

\* the call of sendInviteMsgToContacts; the selected contacts are renamed
\* before messengerInfo is read
SendInviteMsgToContacts ==
  /\ \A i \in 1..Len(selectedContacts) : selectedContacts[i].prefixes < MaxPrefixes
  /\ selectedContacts' = Prefixed(selectedContacts)
  /\ IF messengerInfo.loaded
       THEN /\ tasks' = Add(tasks, [Task("invite", "transport", 0)
                                      EXCEPT !.ids = InviteRecipients])
            /\ lastOp' = [Op("sendInviteMsgToContacts", 0)
                            EXCEPT !.msgs = InviteRecipients]
       ELSE /\ tasks' = tasks
            /\ lastOp' = Op("sendInviteMsgToContactsThrows", 0)
  /\ UNCHANGED <<messengerInfo, conversations, selectedConversationId, isLoading,
                 messageForReply, messageForEdit, selectedMessages, ui, history, searchVars,
                 contactsForAction, contactsAutocomplete, mediaVars, socket,
                 typingTimer, typingThrottle, jobs, now>>

\* the success callback: clearAtocomleteContactsSearch,
\* contacts.clearSelectedContacts, loadMessengerInfo
SendInviteSuccess(t) ==
  /\ BagIn(t, tasks)
  /\ t.kind = "invite"
  /\ contactsAutocomplete' = <<>>
  /\ selectedContacts' = <<>>
  /\ tasks' = LoadMessengerInfoEffect(Remove(tasks, t))
  /\ isLoading' = TRUE
  /\ lastOp' = Op("inviteSent", 0)
  /\ UNCHANGED <<messengerInfo, conversations, selectedConversationId,
                 messageForReply, messageForEdit, selectedMessages, ui, history, searchVars,
                 contactsForAction, mediaVars, socket,
                 typingTimer, typingThrottle, jobs, now>>

\* the request failed: no callback is registered for it
SendInviteFailure(t) ==
  /\ BagIn(t, tasks)
  /\ t.kind = "invite"
  /\ tasks' = Remove(tasks, t)
  /\ lastOp' = Op("inviteFailed", 0)
  /\ UNCHANGED <<messengerInfo, conversations, selectedConversationId, isLoading,
                 messageForReply, messageForEdit, selectedMessages, ui, history, searchVars,
                 contactVars, mediaVars, socket,
                 typingTimer, typingThrottle, jobs, now>>

\* the members addAllMembersToGroup adds: the selected contacts, renamed, and
\* the added contacts
GroupMembers ==
  [i \in 1..Len(selectedContacts) |-> IdPiece(selectedContacts[i], 1)]
    \o [i \in 1..Len(contactsForAction) |-> IdPiece(contactsForAction[i], 0)]

\* addAllMembersToGroup: the selected contacts are renamed and for every
\* member addGroupMember runs up to its `await getSocket()`
AddAllMembersToGroup(groupId) ==
  /\ \A i \in 1..Len(selectedContacts) : selectedContacts[i].prefixes < MaxPrefixes
  /\ selectedContacts' = Prefixed(selectedContacts)
  /\ tasks' = tasks (+) SetToBag({[Task("addMember", "socket", groupId) EXCEPT
                                      !.ids = <<GroupMembers[i]>>] :
                                    i \in 1..Len(GroupMembers)})
  /\ lastOp' = [Op("addAllMembersToGroup", groupId) EXCEPT !.msgs = GroupMembers]
  /\ UNCHANGED <<messengerInfo, conversations, selectedConversationId, isLoading,
                 messageForReply, messageForEdit, selectedMessages, ui, history, searchVars,
                 contactsForAction, contactsAutocomplete, mediaVars, socket,
                 typingTimer, typingThrottle, jobs, now>>

\* ------------------------------------------------------------------------
\* Inbound message event: CommunicationStore.updateMessage
\* ------------------------------------------------------------------------
\* Conversation.updateMessage
ConvUpdateMessage(conv, message) ==
  IF message.conv # conv.id THEN conv
  ELSE LET existedIdx == FindIndex(conv.messages, LAMBDA m : m.id = message.id)
       IN IF existedIdx # -1
            THEN [conv EXCEPT !.messages[existedIdx + 1] = message]
            ELSE [conv EXCEPT !.messages = Append(@, message)]

\* info.unreadCount = +info.unreadCount + 1
IncUnread(e) == [e EXCEPT !.unreadCount = @ + 1]

\* confirms names the temporary message the event is the server's
\* confirmation of (NoId for a message of somebody else); the store never
\* sees it
UpdateMessage(message, confirms) ==
  /\ socket.userId # 0
  /\ LET id == message.conv
     IN /\ id \in Loaded => Len(conversations[id].messages) < MaxMsgs
        /\ confirms # NoId =>
             /\ id \in Loaded
             /\ \E m \in Range(conversations[id].messages) :
                  m.isSendingMessage /\ m.id = confirms
             /\ ~message.unread
        /\ conversations' =
             IF id \in Loaded
               THEN [conversations EXCEPT ![id] = ConvUpdateMessage(@, message)]
               ELSE conversations
        /\ IF ~HasInfo(messengerInfo, id)
             THEN /\ tasks' = LoadMessengerInfoEffect(tasks)
                  /\ isLoading' = TRUE
                  /\ messengerInfo' = messengerInfo
             ELSE /\ UnreadCountOf(messengerInfo, id) < MaxUnread
                  /\ messengerInfo' =
                       IF message.unread
                         THEN MapEntry(messengerInfo, id, IncUnread)
                         ELSE messengerInfo
                  /\ UNCHANGED <<tasks, isLoading>>
        /\ lastOp' = [Op("updateMessage", id) EXCEPT
                        !.confirms = confirms, !.n = message.id[2]]
  /\ UNCHANGED <<selectedConversationId, messageForReply, messageForEdit,
                 selectedMessages, ui, history, searchVars, contactVars, mediaVars, socket,
                 typingTimer, typingThrottle, jobs, now>>

\* ------------------------------------------------------------------------
\* deleteGroup
\* ------------------------------------------------------------------------
\* the reply of messenger.getBusiness / getPrivate of a user with groups
GroupRosters ==
  {[loaded |-> TRUE, userId |-> 7,
    conversations |-> <<Info(1, "conversation", 0, 11)>>,
    groups |-> <<Info(3, "chat-group", 0, 0), Info(4, "chat-group", 0, 0),
                 Info(5, "chat-group", 0, 0)>>]}

\* replies for a user with two groups, with and without a second conversation
ReloadRosters ==
  {[r EXCEPT !.conversations = @ \o rest, !.groups = SubSeq(@, 1, 2)] :
     r \in GroupRosters, rest \in {<<>>, <<Info(2, "conversation", 0, 12)>>}}

\* the neighbour after the deleted group preferred
NewIndexPreferNext(delGroupIndex, length) ==
  IF length > 1
    THEN (IF delGroupIndex + 1 < length THEN delGroupIndex + 1 ELSE delGroupIndex - 1)
    ELSE -1

\* let newIndex = -1; if (groups.length > 1) newIndex = ...
NewIndex(delGroupIndex, length) ==
  IF length > 1
    THEN (IF delGroupIndex > 0 THEN delGroupIndex - 1 ELSE delGroupIndex + 1)
    ELSE -1

\* every group from the deleted one on dropped
RemainingGroupsBefore(groups, groupId) ==
  SubSeq(groups, 1, FindIndex(groups, LAMBDA group : group.id = groupId))

\* groups.filter(group => group.id !== groupId)
RemainingGroups(groups, groupId) ==
  Filter(groups, LAMBDA group : group.id # groupId)

\* the call: runs up to `await getSocket()`
DeleteGroup(groupId) ==
  /\ tasks' = Add(tasks, Task("deleteGroup", "socket", groupId))
  /\ lastOp' = Op("deleteGroupCall", groupId)
  /\ UNCHANGED <<messengerInfo, conversations, selectedConversationId, isLoading,
                 messageForReply, messageForEdit,
                 selectedMessages, ui, history, searchVars, contactVars, mediaVars, socket, typingTimer, typingThrottle, jobs, now>>

\* getSocket() returned: socket.deleteGroup(groupId) is issued
DeleteGroupIssue(t) ==
  /\ BagIn(t, tasks)
  /\ t.kind = "deleteGroup" /\ t.pc = "socket"
  /\ socket.userId # 0
  /\ tasks' = Replace(tasks, t, [t EXCEPT !.pc = "transport"])
  /\ lastOp' = Op("deleteGroupIssue", t.id)
  /\ UNCHANGED <<messengerInfo, conversations, selectedConversationId, isLoading,
                 messageForReply, messageForEdit,
                 selectedMessages, ui, history, searchVars, contactVars, mediaVars, socket, typingTimer, typingThrottle, jobs, now>>

\* the success callback
DeleteGroupSuccess(t) ==
  /\ BagIn(t, tasks)
  /\ t.kind = "deleteGroup" /\ t.pc = "transport"
  /\ messengerInfo.loaded
  /\ LET groups == messengerInfo.groups
         delGroupIndex == FindIndex(groups, LAMBDA group : group.id = t.id)
         newIndex == NewIndex(delGroupIndex, Len(groups))
         left == [messengerInfo EXCEPT !.groups = RemainingGroups(groups, t.id)]
     IN /\ SelectEffect(IF newIndex # -1 THEN groups[newIndex + 1].id ELSE 0,
                        left, Remove(tasks, t))
        /\ lastOp' = [Op("deleteGroup", t.id) EXCEPT
                        !.target = selectedConversationId, !.n = delGroupIndex]
  /\ UNCHANGED <<isLoading, messageForReply, messageForEdit,
                 selectedMessages, ui, history, searchVars, contactVars, mediaVars, socket, typingTimer, typingThrottle, jobs, now>>

\* .error(log.error)
DeleteGroupFailure(t) ==
  /\ BagIn(t, tasks)
  /\ t.kind = "deleteGroup" /\ t.pc = "transport"
  /\ tasks' = Remove(tasks, t)
  /\ lastOp' = Op("deleteGroupFailed", t.id)
  /\ UNCHANGED <<messengerInfo, conversations, selectedConversationId, isLoading,
                 messageForReply, messageForEdit,
                 selectedMessages, ui, history, searchVars, contactVars, mediaVars, socket, typingTimer, typingThrottle, jobs, now>>

\* ------------------------------------------------------------------------
\* addGroupMember and removeGroupMember
\* ------------------------------------------------------------------------
\* the members a group gets and loses
MemberIds == {31, 32}

\* Conversation.addMember(data), Conversation.removeMember(memberId)
addMember(conv, member) == [conv EXCEPT !.members = @ \cup {member}]

removeMember(conv, memberId) == [conv EXCEPT !.members = @ \ {memberId}]

\* the calls: run up to `await getSocket()`
AddGroupMember(groupId, memberAlias) ==
  /\ tasks' = Add(tasks, [Task("addMember", "socket", groupId) EXCEPT
                            !.ids = <<memberAlias>>])
  /\ lastOp' = Op("addGroupMember", groupId)
  /\ UNCHANGED <<messengerInfo, conversations, selectedConversationId, isLoading,
                 messageForReply, messageForEdit,
                 selectedMessages, ui, history, searchVars, contactVars, mediaVars, socket, typingTimer, typingThrottle, jobs, now>>

RemoveGroupMember(groupId, memberId) ==
  /\ tasks' = Add(tasks, [Task("removeMember", "socket", groupId) EXCEPT
                            !.ids = <<memberId>>])
  /\ lastOp' = Op("removeGroupMember", groupId)
  /\ UNCHANGED <<messengerInfo, conversations, selectedConversationId, isLoading,
                 messageForReply, messageForEdit,
                 selectedMessages, ui, history, searchVars, contactVars, mediaVars, socket, typingTimer, typingThrottle, jobs, now>>

\* getSocket() returned: socket.addGroupMember / removeGroupMember is issued
GroupMemberIssue(t) ==
  /\ BagIn(t, tasks)
  /\ t.kind \in {"addMember", "removeMember"} /\ t.pc = "socket"
  /\ socket.userId # 0
  /\ tasks' = Replace(tasks, t, [t EXCEPT !.pc = "transport"])
  /\ lastOp' = Op("groupMemberIssue", t.id)
  /\ UNCHANGED <<messengerInfo, conversations, selectedConversationId, isLoading,
                 messageForReply, messageForEdit,
                 selectedMessages, ui, history, searchVars, contactVars, mediaVars, socket, typingTimer, typingThrottle, jobs, now>>

\* the success callbacks: the member list of this.selectedConversation is
\* changed and markConversationAsRead(this.selectedConversationId) runs;
\* without a loaded selection the callback ends in a TypeError
GroupMemberSuccess(t, change(_, _), op) ==
  /\ BagIn(t, tasks)
  /\ t.pc = "transport"
  /\ IF selectedConversationId \in Loaded
       THEN LET sel == selectedConversationId
                ids == getUnreadIds(conversations[sel])
            IN /\ conversations' =
                    [conversations EXCEPT
                       ![sel] = [change(@, t.ids[1]) EXCEPT
                                   !.messages = ReadMessages(@)]]
               /\ messengerInfo' =
                    IF messengerInfo.loaded
                      THEN MapEntry(messengerInfo, sel, ZeroUnread)
                      ELSE messengerInfo
               /\ tasks' = IF NeedsReadCall(ids)
                             THEN Add(Remove(tasks, t),
                                      [Task("read", "socket", sel) EXCEPT !.ids = ids])
                             ELSE Remove(tasks, t)
               /\ lastOp' = [Op(op, t.id) EXCEPT !.target = sel, !.n = t.ids[1]]
       ELSE /\ tasks' = Remove(tasks, t)
            /\ lastOp' = Op("groupMemberThrows", t.id)
            /\ UNCHANGED <<conversations, messengerInfo>>
  /\ UNCHANGED <<selectedConversationId, isLoading, messageForReply, messageForEdit,
                 selectedMessages, ui, history, searchVars, contactVars, mediaVars,
                 socket, typingTimer, typingThrottle, jobs, now>>

AddGroupMemberSuccess(t) ==
  /\ t.kind = "addMember"
  /\ GroupMemberSuccess(t, addMember, "memberAdded")

RemoveGroupMemberSuccess(t) ==
  /\ t.kind = "removeMember"
  /\ GroupMemberSuccess(t, removeMember, "memberRemoved")

\* the request failed: log.error, or the rejected promise of addGroupMember
GroupMemberFailure(t) ==
  /\ BagIn(t, tasks)
  /\ t.kind \in {"addMember", "removeMember"} /\ t.pc = "transport"
  /\ tasks' = Remove(tasks, t)
  /\ lastOp' = Op("groupMemberFailed", t.id)
  /\ UNCHANGED <<messengerInfo, conversations, selectedConversationId, isLoading,
                 messageForReply, messageForEdit,
                 selectedMessages, ui, history, searchVars, contactVars, mediaVars, socket, typingTimer, typingThrottle, jobs, now>>

\* ------------------------------------------------------------------------
\* Inbound status and typing events: CommunicationStore.updateUserStatus
\* ------------------------------------------------------------------------
\* a call of a debounced function that leaves a pending timer as it is
DebouncedNoRestart(timer) ==
  IF timer.armed THEN timer ELSE [timer EXCEPT !.armed = TRUE, !.elapsed = 0]

\* a call of the debounced updateTypingStatusLazily: the wait starts again
Debounced(timer) == [timer EXCEPT !.armed = TRUE, !.elapsed = 0]

\* Conversation.updateStatus(status, typing)
updateStatus(conv, status, typing) ==
  IF ~typing
    THEN [conv EXCEPT !.status.online = status.online]
    ELSE [conv EXCEPT !.status.typing = TRUE, !.status.online = TRUE]

\* the status of a user applied to every loaded conversation that has one
StatusTargetsAnyUser(userId) ==
  {id \in Loaded : conversations[id].status.present}

\* the loaded conversations updateUserStatus applies the status to
StatusTargets(userId) ==
  {id \in Loaded : conversations[id].status.present
                   /\ conversations[id].status.userId = userId}

\* the roster entries of the model carry no presence: info.updateStatus
\* changes nothing that is kept here
UpdateUserStatus(status, typing) ==
  /\ socket.userId # 0
  /\ messengerInfo.loaded
  /\ conversations' =
       [id \in Loaded |->
          IF id \in StatusTargets(status.userId)
            THEN updateStatus(conversations[id], status, typing)
            ELSE conversations[id]]
  /\ typingTimer' =
       [id \in DOMAIN typingTimer |->
          IF typing /\ id \in StatusTargets(status.userId)
            THEN [Debounced(typingTimer[id]) EXCEPT !.quiet = 0]
            ELSE typingTimer[id]]
  /\ lastOp' = [Op(IF typing THEN "typingPush" ELSE "statusPush", status.userId)
                  EXCEPT !.n = Cardinality(StatusTargets(status.userId)),
                         !.again = \E id \in StatusTargets(status.userId) :
                                     typingTimer[id].armed]
  /\ UNCHANGED <<messengerInfo, selectedConversationId, isLoading,
                 messageForReply, messageForEdit,
                 selectedMessages, ui, history, searchVars, contactVars, mediaVars, socket, typingThrottle, tasks, jobs, now>>

\* a debounce timer that is pending and not yet due
Running(timer) == timer.armed /\ timer.elapsed < TYPING_QUIET_MS

\* the times until the pending timers fire
Dues ==
  {TYPING_QUIET_MS - typingTimer[id].elapsed :
     id \in {k \in DOMAIN typingTimer : typingTimer[k].armed}}
  \cup (IF typingThrottle.armed THEN {typingThrottle.remaining} ELSE {})

\* time passes: TickMs, or less up to the next timer that fires
TickStep == CHOOSE d \in Dues \cup {TickMs} : \A e \in Dues \cup {TickMs} : d <= e

Tick ==
  /\ Dues # {}
  /\ TickStep > 0
  /\ typingTimer' =
       [id \in DOMAIN typingTimer |->
          [typingTimer[id] EXCEPT
             !.elapsed = IF typingTimer[id].armed THEN @ + TickStep ELSE @,
             !.quiet = Min(@ + TickStep, TYPING_QUIET_MS)]]
  /\ typingThrottle' =
       [typingThrottle EXCEPT
          !.sinceCall = Min(@ + TickStep, THROTTLE_MS),
          !.sinceInvoke = Min(@ + TickStep, THROTTLE_MS),
          !.remaining = IF typingThrottle.armed THEN @ - TickStep ELSE @]
  /\ lastOp' = Op("tick", 0)
  /\ UNCHANGED <<messengerInfo, conversations, selectedConversationId, isLoading,
                 messageForReply, messageForEdit,
                 selectedMessages, ui, history, searchVars, contactVars, mediaVars, socket, tasks, jobs, now>>

\* the debounce timer of Conversation id is due: updateTypingStatusLazily runs
UpdateTypingStatusLazily(id) ==
  /\ id \in Loaded
  /\ typingTimer[id].armed
  /\ typingTimer[id].elapsed >= TYPING_QUIET_MS
  /\ conversations' = [conversations EXCEPT ![id].status.typing = FALSE]
  /\ typingTimer' = [typingTimer EXCEPT ![id].armed = FALSE]
  /\ lastOp' = Op("updateTypingStatusLazily", id)
  /\ UNCHANGED <<messengerInfo, selectedConversationId, isLoading,
                 messageForReply, messageForEdit,
                 selectedMessages, ui, history, searchVars, contactVars, mediaVars, socket, typingThrottle, tasks, jobs, now>>

\* ------------------------------------------------------------------------
\* updateTypingStatus, throttled in the constructor
\* ------------------------------------------------------------------------
\* the original updateTypingStatus is invoked: runs up to `await getSocket()`
InvokeUpdateTypingStatus(ts, conversationId) ==
  Add(ts, Task("typing", "socket", conversationId))

\* lodash shouldInvoke
shouldInvoke(th) ==
  ~th.called \/ th.sinceCall >= THROTTLE_MS \/ th.sinceInvoke >= THROTTLE_MS

\* a call of the throttled this.updateTypingStatus(conversationId)
UpdateTypingStatus(conversationId) ==
  /\ LET th == typingThrottle
     IN IF shouldInvoke(th)
          THEN \* leading edge, or maxWait reached while the timer is pending
               /\ typingThrottle' =
                    [called |-> TRUE, sinceCall |-> 0, sinceInvoke |-> 0,
                     armed |-> TRUE, remaining |-> THROTTLE_MS, lastArgs |-> 0]
               /\ tasks' = InvokeUpdateTypingStatus(tasks, conversationId)
          ELSE /\ typingThrottle' =
                    [th EXCEPT !.called = TRUE, !.sinceCall = 0,
                               !.lastArgs = conversationId,
                               !.armed = TRUE,
                               !.remaining = IF th.armed THEN @ ELSE THROTTLE_MS]
               /\ tasks' = tasks
  /\ lastOp' = [Op("updateTypingStatus", conversationId) EXCEPT
                  !.issued = shouldInvoke(typingThrottle),
                  !.again = typingThrottle.sinceInvoke < THROTTLE_MS]
  /\ UNCHANGED <<messengerInfo, conversations, selectedConversationId, isLoading,
                 messageForReply, messageForEdit,
                 selectedMessages, ui, history, searchVars, contactVars, mediaVars, socket, typingTimer, jobs, now>>

\* the timer of the throttle fires: lodash timerExpired / trailingEdge
ThrottleTimer ==
  /\ typingThrottle.armed /\ typingThrottle.remaining = 0
  /\ LET th == typingThrottle
     IN IF shouldInvoke(th)
          THEN /\ typingThrottle' =
                    [th EXCEPT !.armed = FALSE, !.lastArgs = 0,
                               !.sinceInvoke = IF th.lastArgs # 0 THEN 0 ELSE @]
               /\ tasks' = IF th.lastArgs # 0
                             THEN InvokeUpdateTypingStatus(tasks, th.lastArgs)
                             ELSE tasks
               /\ lastOp' = [Op("throttleTimer", th.lastArgs) EXCEPT
                               !.issued = th.lastArgs # 0,
                               !.again = th.sinceInvoke < THROTTLE_MS]
          ELSE /\ typingThrottle' =
                    [th EXCEPT !.remaining = Min(THROTTLE_MS - th.sinceCall,
                                                 THROTTLE_MS - th.sinceInvoke)]
               /\ tasks' = tasks
               /\ lastOp' = Op("throttleTimer", 0)
  /\ UNCHANGED <<messengerInfo, conversations, selectedConversationId, isLoading,
                 messageForReply, messageForEdit,
                 selectedMessages, ui, history, searchVars, contactVars, mediaVars, socket, typingTimer, jobs, now>>

\* getSocket() returned: socket.updateTypingStatus(conversationId) is sent
TypingStatusSend(t) ==
  /\ BagIn(t, tasks)
  /\ t.kind = "typing" /\ t.pc = "socket"
  /\ socket.userId # 0
  /\ tasks' = Remove(tasks, t)
  /\ lastOp' = Op("typingStatusSent", t.id)
  /\ UNCHANGED <<messengerInfo, conversations, selectedConversationId, isLoading,
                 messageForReply, messageForEdit,
                 selectedMessages, ui, history, searchVars, contactVars, mediaVars, socket, typingTimer, typingThrottle, jobs, now>>

StatusPushes == {[userId |-> u, online |-> o] : u \in PeerIds, o \in BOOLEAN}

InboundMessages ==
  {Msg(SrvId(k), c, unread, FALSE, "hi") : k \in 1..MaxMsgId, c \in ConvIds,
                                           unread \in BOOLEAN}

TmpIds == {TmpId(t) : t \in 0..MaxNow}

\* ------------------------------------------------------------------------
\* Specifications
\* ------------------------------------------------------------------------
\* a call is made only while fewer than k calls are suspended
Room(k) == BagCardinality(tasks) < k

InfoSteps(k, rosters, modes) ==
  \/ Room(k) /\ LoadMessengerInfo
  \/ \E t \in DOMAIN tasks, data \in rosters, phoneMode \in modes :
       LoadMessengerInfoSuccess(t, data, phoneMode)

LoadSteps(k, ids, limits, counts, unreads) ==
  \/ \E id \in ids, limit \in limits : Room(k) /\ LoadConversation(id, limit)
  \/ \E t \in DOMAIN tasks : LoadResume(t)
  \/ \E j \in jobs, n \in counts, u \in unreads : GetConversationSuccess(j, n, u)
  \/ \E j \in jobs : SettingsSuccess(j)

LoadFailures ==
  \/ \E j \in jobs : GetConversationFailure(j)
  \/ \E j \in jobs : SettingsFailure(j)

ReadSteps(k, ids) ==
  \/ \E id \in ids : Room(k) /\ MarkConversationAsRead(id)
  \/ \E t \in DOMAIN tasks : ReadIssue(t)
  \/ \E t \in DOMAIN tasks, ok \in BOOLEAN : ReadSettle(t, ok)

SelectSteps(k, ids) ==
  \/ \E id \in ids \cup {0} : Room(k) /\ SetSelectedConversationId(id)
  \/ \E t \in DOMAIN tasks : SelectContinue(t)

SendSteps(k, ids) ==
  \/ \E id \in ids, body \in Bodies : Room(k) /\ SendMessage(id, body)
  \/ \E t \in DOMAIN tasks, stamp \in 0..MaxNow : SendResume(t, stamp)

EventSteps(k, ids, unreads) ==
  \E m \in InboundMessages, confirms \in TmpIds \cup {NoId} :
    /\ Room(k) \/ HasInfo(messengerInfo, m.conv)
    /\ m.conv \in ids /\ m.unread \in unreads
    /\ UpdateMessage(m, confirms)

TypingSteps(ids) ==
  \/ \E status \in StatusPushes : UpdateUserStatus(status, TRUE)
  \/ \E status \in StatusPushes : UpdateUserStatus(status, FALSE)
  \/ Tick
  \/ \E id \in ids : UpdateTypingStatusLazily(id)

GroupSteps(k, ids) ==
  \/ \E id \in ids : Room(k) /\ DeleteGroup(id)
  \/ \E t \in DOMAIN tasks : DeleteGroupIssue(t)
  \/ \E t \in DOMAIN tasks : DeleteGroupSuccess(t)
  \/ \E t \in DOMAIN tasks : DeleteGroupFailure(t)

ThrottleSteps(k, ids) ==
  \/ \E id \in ids : Room(k) /\ UpdateTypingStatus(id)
  \/ ThrottleTimer
  \/ \E t \in DOMAIN tasks : TypingStatusSend(t)
  \/ Tick

SocketSteps(userIds) ==
  \/ \E userId \in userIds : InitSocket(userId)
  \/ TokenChange

ComposeSteps(ids) ==
  \/ \E m \in ids : SetMessageForReply(m)
  \/ RemoveMessageForReply
  \/ \E m \in ids : SetMessageForEdit(m)
  \/ RemoveMessageForEdit
  \/ \E m \in ids : SelectMessage(m)
  \/ \E m \in ids : DeselectMessage(m)
  \/ \E s \in BOOLEAN, f \in BOOLEAN : SetModes(s, f)

ContactSteps(k, ids) ==
  \/ \E id \in ids : AddContactForAction(Contact(id))
  \/ \E id \in ids : RemoveContactForAction(id)
  \/ \E id \in ids : SelectContact(Contact(id))
  \/ Room(k) /\ SearchContactsAutocomplete
  \/ \E t \in DOMAIN tasks :
       SearchContactsAutocompleteSuccess(t, <<Contact(21)>>)
  \/ \E t \in DOMAIN tasks : SearchContactsAutocompleteFailure(t)
  \/ Room(k) /\ CreateNewGroup
  \/ \E t \in DOMAIN tasks, ok \in BOOLEAN : CreateNewGroupComplete(t, ok)
  \/ Room(k) /\ SendInviteMsgToContacts
  \/ \E t \in DOMAIN tasks : SendInviteSuccess(t)
  \/ \E t \in DOMAIN tasks : SendInviteFailure(t)

UploadSteps(k, ids, keys) ==
  \/ \E id \in ids, stamp \in 0..MaxNow :
       Room(k) /\ SendMessageWithMedias(id, stamp)
  \/ \E t \in DOMAIN tasks : SendMessageWithMediasSettle(t)
  \/ \E key \in keys, value \in ProgressValues :
       UpdateFileUploadProgress(key, value)
  \/ \E key \in keys : RemoveFileUploadingProgress(key)

SearchSteps(k, texts, results) ==
  \/ \E text \in texts : Room(k) /\ Search(text)
  \/ \E t \in DOMAIN tasks : SearchMessagesIssue(t)
  \/ \E t \in DOMAIN tasks, data \in results : SearchMessagesSuccess(t, data)
  \/ \E t \in DOMAIN tasks : SearchMessagesFailure(t)
  \/ ClearFoundMessages

OneRoster == {r \in CoreRosters : Len(r.conversations) = 2 /\ r.conversations[1].unreadCount = 0}

\* loading and pagination of one conversation
NextLoad ==
  \/ InfoSteps(MaxTasks, OneRoster, {TRUE})
  \/ LoadSteps(MaxTasks, {1}, Limits, 0..MaxFetch, {0})
  \/ LoadFailures
  \/ \E id \in ConvIds : Room(MaxTasks) /\ LoadOlderMessages(id)

SpecLoad == Init /\ [][NextLoad]_vars

\* read state of one conversation
NextRead ==
  \/ InfoSteps(MaxCalls, CoreRosters, {TRUE})
  \/ LoadSteps(MaxCalls, {1}, {MSGS_REQUEST_LIMIT}, 0..MaxFetch, 0..MaxFetch)
  \/ ReadSteps(MaxCalls, {1})
  \/ EventSteps(MaxCalls, {1}, BOOLEAN)

SpecRead == Init /\ [][NextRead]_vars

\* sending and reconciliation, two conversations
NextSend ==
  \/ InfoSteps(MaxCalls, OneRoster, {TRUE})
  \/ LoadSteps(MaxCalls, ConvIds, {MSGS_REQUEST_LIMIT}, {0}, {0})
  \/ SelectSteps(MaxCalls, {1})
  \/ SendSteps(MaxCalls, ConvIds)
  \/ EventSteps(MaxCalls, ConvIds, {FALSE})

SpecSend == Init /\ [][NextSend]_vars

\* presence and typing of the loaded conversations
NextTyping ==
  \/ InfoSteps(MaxCalls, OneRoster, {TRUE})
  \/ LoadSteps(MaxCalls, ConvIds, {MSGS_REQUEST_LIMIT}, {0}, {0})
  \/ TypingSteps(ConvIds)

SpecTyping == Init /\ [][NextTyping]_vars

\* timers run and fire
SpecTypingFair ==
  /\ SpecTyping
  /\ WF_vars(Tick)
  /\ \A id \in ConvIds : WF_vars(UpdateTypingStatusLazily(id))

\* groups: selection and deletion
NextGroups ==
  \/ InfoSteps(MaxCalls, GroupRosters, {TRUE})
  \/ LoadSteps(MaxCalls, {3}, {MSGS_REQUEST_LIMIT}, {0}, {0})
  \/ SelectSteps(MaxCalls, GroupIds)
  \/ GroupSteps(MaxCalls, GroupIds)

SpecGroups == Init /\ [][NextGroups]_vars

\* unread counts of one conversation: the roster is fetched once, with no
\* unread message, and the loads return no unread message
NextUnread ==
  \/ ~messengerInfo.loaded /\ InfoSteps(MaxCalls, OneRoster, {TRUE})
  \/ LoadSteps(MaxCalls, {1}, {MSGS_REQUEST_LIMIT}, 0..MaxFetch, {0})
  \/ ReadSteps(MaxCalls, {1})
  \/ EventSteps(MaxCalls, {1}, BOOLEAN)

SpecUnread == Init /\ [][NextUnread]_vars

\* the roster: reloads, inbound messages and group deletion
NextRoster ==
  \/ InfoSteps(MaxCalls, ReloadRosters, {TRUE})
  \/ \E t \in DOMAIN tasks : LoadResume(t)
  \/ \E j \in jobs : GetConversationSuccess(j, 0, 0)
  \/ \E j \in jobs : SettingsSuccess(j)
  \/ \E t \in DOMAIN tasks : SelectContinue(t)
  \/ EventSteps(MaxCalls, ConvIds, {FALSE})
  \/ GroupSteps(MaxCalls, {3, 4})

SpecRoster == Init /\ [][NextRoster]_vars

\* outbound typing status
NextThrottle ==
  \/ InfoSteps(MaxCalls, OneRoster, {TRUE})
  \/ ThrottleSteps(MaxTasks, ConvIds)

SpecThrottle == Init /\ [][NextThrottle]_vars

\* the replies for two users
UserRosters == {[r EXCEPT !.userId = u] : r \in OneRoster, u \in {7, 8}}

\* the channel: roster loads of two users, initSocket, token changes
NextSocket ==
  \/ InfoSteps(MaxCalls, UserRosters, BOOLEAN)
  \/ LoadSteps(MaxCalls, {1}, {MSGS_REQUEST_LIMIT}, {0}, {0})
  \/ \E t \in DOMAIN tasks : SelectContinue(t)
  \/ SocketSteps({7, 8})

SpecSocket == Init /\ [][NextSocket]_vars

\* the targets and modes of the chat
NextCompose == ComposeSteps(ComposeIds)

\* staging contacts, creating a group, inviting
NextContacts ==
  \/ ~messengerInfo.loaded /\ Room(MaxCalls) /\ LoadMessengerInfo
  \/ \E t \in DOMAIN tasks, data \in OneRoster :
       LoadMessengerInfoSuccess(t, data, TRUE)
  \/ ContactSteps(MaxCalls, ContactIds)

SpecContacts == Init /\ [][NextContacts]_vars

\* selection of a conversation, its load on demand and its marking as read
NextSelect ==
  \/ ~messengerInfo.loaded /\ InfoSteps(MaxCalls, CoreRosters, BOOLEAN)
  \/ SelectSteps(MaxCalls, {1})
  \/ \E t \in DOMAIN tasks : LoadResume(t)
  \/ \E j \in jobs, n \in 0..MaxFetch, u \in 0..MaxFetch :
       GetConversationSuccess(j, n, u)
  \/ \E j \in jobs : SettingsSuccess(j)
  \/ LoadFailures
  \/ \E t \in DOMAIN tasks : ReadIssue(t)
  \/ \E t \in DOMAIN tasks, ok \in BOOLEAN : ReadSettle(t, ok)
  \/ EventSteps(MaxCalls, {1}, {TRUE})

SpecSelect == Init /\ [][NextSelect]_vars

\* searches and a load, each of which may fail
NextSearch ==
  \/ ~messengerInfo.loaded /\ InfoSteps(MaxCalls, OneRoster, {TRUE})
  \/ SearchSteps(MaxCalls, Queries, FoundResults)
  \/ Room(MaxCalls) /\ SearchContactsAutocomplete
  \/ \E t \in DOMAIN tasks :
       SearchContactsAutocompleteSuccess(t, <<Contact(21)>>)
  \/ \E t \in DOMAIN tasks : SearchContactsAutocompleteFailure(t)
  \/ LoadSteps(MaxCalls, {1}, {MSGS_REQUEST_LIMIT}, 0..MaxFetch, {0})
  \/ LoadFailures

SpecSearch == Init /\ [][NextSearch]_vars

\* no call of the store is suspended and no request is in flight
Awaited == tasks = EmptyBag /\ jobs = {}

\* conversation 1 is loaded once and then paged back, each call awaited and
\* every request answered from the server's history
NextOlder ==
  \/ ~messengerInfo.loaded /\ InfoSteps(MaxCalls, OneRoster, {TRUE})
  \/ \E limit \in Limits :
       messengerInfo.loaded /\ 1 \notin Loaded /\ Awaited /\ LoadConversation(1, limit)
  \/ 1 \in Loaded /\ Awaited /\ LoadOlderMessages(1)
  \/ \E t \in DOMAIN tasks : LoadResume(t)
  \/ \E j \in jobs : GetConversationOfHistory(j)
  \/ \E j \in jobs : SettingsSuccess(j)

\* sending while conversation 1 is loaded and paged back
NextReload ==
  \/ ~messengerInfo.loaded /\ InfoSteps(MaxCalls, OneRoster, {TRUE})
  \/ LoadSteps(MaxTasks, {1}, Limits, 0..MaxFetch, {0})
  \/ Room(MaxTasks) /\ LoadOlderMessages(1)
  \/ SelectSteps(MaxCalls, {1})
  \/ SendSteps(MaxTasks, {1})
  \/ EventSteps(MaxCalls, {1}, {FALSE})

SpecReload == Init /\ [][NextReload]_vars

\* staged contacts invited and added to group 3, again and again
NextInvite ==
  \/ ~messengerInfo.loaded /\ Room(MaxCalls) /\ LoadMessengerInfo
  \/ \E t \in DOMAIN tasks, data \in GroupRosters :
       LoadMessengerInfoSuccess(t, data, TRUE)
  \/ \E id \in ContactIds : AddContactForAction(Contact(id))
  \/ \E id \in ContactIds : SelectContact(Contact(id))
  \/ Room(MaxCalls) /\ SendInviteMsgToContacts
  \/ \E t \in DOMAIN tasks : SendInviteSuccess(t)
  \/ \E t \in DOMAIN tasks : SendInviteFailure(t)
  \/ Room(MaxCalls) /\ AddAllMembersToGroup(3)
  \/ \E t \in DOMAIN tasks : GroupMemberIssue(t)
  \/ \E t \in DOMAIN tasks : AddGroupMemberSuccess(t)
  \/ \E t \in DOMAIN tasks : GroupMemberFailure(t)

SpecInvite == Init /\ [][NextInvite]_vars

SpecOlder == InitOlder /\ [][NextOlder]_vars

MemberSteps(k, ids) ==
  \/ \E g \in ids, m \in MemberIds : Room(k) /\ AddGroupMember(g, m)
  \/ \E g \in ids, m \in MemberIds : Room(k) /\ RemoveGroupMember(g, m)
  \/ \E t \in DOMAIN tasks : GroupMemberIssue(t)
  \/ \E t \in DOMAIN tasks : AddGroupMemberSuccess(t)
  \/ \E t \in DOMAIN tasks : RemoveGroupMemberSuccess(t)
  \/ \E t \in DOMAIN tasks : GroupMemberFailure(t)

\* the members of two loaded groups, either of them selected
NextMembers ==
  \/ ~messengerInfo.loaded /\ InfoSteps(MaxCalls, GroupRosters, {TRUE})
  \/ LoadSteps(MaxCalls, {3, 4}, {MSGS_REQUEST_LIMIT}, {0}, {0})
  \/ SelectSteps(MaxCalls, {3, 4})
  \/ MemberSteps(MaxCalls, {3, 4})

SpecMembers == Init /\ [][NextMembers]_vars

\* the calls are repeated and every step of a load is taken in the end
SpecOlderFair == SpecOlder /\ WF_vars(NextOlder)

\* uploads of media into the default conversation
NextUpload ==
  \/ ~messengerInfo.loaded /\ InfoSteps(MaxCalls, OneRoster, {FALSE})
  \/ \E t \in DOMAIN tasks : LoadResume(t)
  \/ \E j \in jobs : GetConversationSuccess(j, 0, 0)
  \/ \E j \in jobs : SettingsSuccess(j)
  \/ \E t \in DOMAIN tasks : SelectContinue(t)
  \/ UploadSteps(MaxCalls, {1}, TmpIds)

SpecUpload == Init /\ [][NextUpload]_vars

\* the derived view of the selected conversation
NextView == ReadConversationMessages

SpecView == InitView /\ [][NextView]_vars

SpecCompose == Init /\ [][NextCompose]_vars

\* ------------------------------------------------------------------------
\* Properties
\* ------------------------------------------------------------------------
MessagesOf(map, id) == map[id].messages

\* C1: whenever sendMessage(c, body) has appended its temporary message and
\* c is a loaded conversation, the message list of c is one entry longer, its
\* new last entry has isSendingMessage = true, and no other conversation's
\* message list has changed.
C1_SendAppendsToTarget ==
  [][(lastOp'.op = "sendMessage" /\ lastOp'.id \in Loaded) =>
       LET c == lastOp'.id
       IN /\ Len(MessagesOf(conversations', c)) = Len(MessagesOf(conversations, c)) + 1
          /\ MessagesOf(conversations', c)[Len(MessagesOf(conversations', c))].isSendingMessage
          /\ \A d \in Loaded \ {c} :
               MessagesOf(conversations', d) = MessagesOf(conversations, d)]_vars

\* C2: an inbound message event that confirms a temporary message replaces
\* it in place: same list length, the temporary entry gone, exactly one entry
\* with the confirmed id.
C2_ConfirmationReplacesInPlace ==
  [][(lastOp'.op = "updateMessage" /\ lastOp'.confirms # NoId) =>
       LET c == lastOp'.id
           after == MessagesOf(conversations', c)
       IN /\ Len(after) = Len(MessagesOf(conversations, c))
          /\ \A i \in 1..Len(after) : after[i].id # lastOp'.confirms
          /\ Cardinality({i \in 1..Len(after) : after[i].id = SrvId(lastOp'.n)}) = 1]_vars

\* C3: for each (userId, conversation id) at most one getConversation call
\* is in flight, every waiting caller waits for exactly one call of its own
\* conversation, a loadConversation that finds a call in flight joins it
\* without issuing one, and one that finds none in flight (the earlier call
\* has settled) issues a new call.
TransportCalls(js, userId, id) ==
  {j \in js : j.stage = "transport" /\ j.userId = userId /\ j.id = id}

C3_OneCallPerKey ==
  [][/\ \A id \in ConvIds, u \in UserIds : Cardinality(TransportCalls(jobs', u, id)) <= 1
     /\ \A t \in DOMAIN tasks' :
          (t.kind = "load" /\ t.pc = "wait") =>
            Cardinality({j \in jobs' : j.jid = t.job /\ j.id = t.id}) = 1
     /\ lastOp'.op = "loadJoin" =>
          /\ TransportCalls(jobs, socket.userId, lastOp'.id) # {}
          /\ jobs' = jobs
     /\ lastOp'.op = "loadIssue" =>
          /\ TransportCalls(jobs, socket.userId, lastOp'.id) = {}
          /\ Cardinality(jobs') = Cardinality(jobs) + 1]_vars

\* a caller has joined a call in flight, and waits for the same call as the
\* caller that issued it
C3_Witness ==
  /\ lastOp.op = "loadJoin"
  /\ Count(tasks, LAMBDA t : IsWaiting(t, lastOp.job)) = 2

C5_OlderNoop ==
  [][(lastOp'.op = "loadOlderMessages"
      /\ (lastOp'.id \notin Loaded \/ conversations[lastOp'.id].allMessagesFetched)) =>
       UNCHANGED <<messengerInfo, conversations, selectedConversationId, isLoading,
                   messageForReply, messageForEdit,
                 selectedMessages, ui, history, searchVars, contactVars, mediaVars, socket, typingTimer, typingThrottle, tasks, jobs, now>>]_vars

\* loadOlderMessages was called on a fully fetched conversation
C5_Witness ==
  /\ lastOp.op = "loadOlderMessages"
  /\ lastOp.id \in Loaded
  /\ conversations[lastOp.id].allMessagesFetched
  /\ ~lastOp.issued

IssuedReads(ts) == Count(ts, LAMBDA t : t.kind = "read" /\ t.pc = "transport")

\* C6: markConversationAsRead(id) on a loaded conversation clears unread on
\* every message and zeroes the roster unreadCount in the step of the call,
\* in which no mark-read transport call is issued yet; the failure of the
\* transport call changes neither the messages nor the roster.
C6_ReadIsOptimistic ==
  [][/\ (lastOp'.op = "markConversationAsRead") =>
          LET id == lastOp'.id
          IN /\ \A i \in 1..Len(MessagesOf(conversations', id)) :
                  ~MessagesOf(conversations', id)[i].unread
             /\ HasInfo(messengerInfo', id) => UnreadCountOf(messengerInfo', id) = 0
             /\ IssuedReads(tasks') = IssuedReads(tasks)
     /\ (lastOp'.op = "readFailed") =>
          UNCHANGED <<conversations, messengerInfo>>]_vars

\* a mark-read call has failed
C6_Witness ==
  /\ lastOp.op = "readFailed"
  /\ lastOp.id \in Loaded
  /\ HasInfo(messengerInfo, lastOp.id)

Typing(map, id) == id \in DOMAIN map /\ map[id].status.typing

GroupIdsOf(info) == {info.groups[i].id : i \in 1..Len(info.groups)}

\* C9: when deleteGroup(g) succeeds while g is selected, the roster no
\* longer contains g; the selection is never g afterwards and is none or a
\* group still in the roster; and for g at roster index i it is the group
\* that was at index i - 1, else the group that was at index i + 1, or none
\* when g was the only group.
C9_DeleteSelectsNeighbour ==
  [][(lastOp'.op = "deleteGroup" /\ selectedConversationId = lastOp'.id) =>
       LET g == lastOp'.id
           groups == messengerInfo.groups
           i == byIdx([messengerInfo EXCEPT !.conversations = <<>>], g)
       IN /\ g \notin GroupIdsOf(messengerInfo')
          /\ ~HasInfo(messengerInfo', g)
          /\ selectedConversationId' # g
          /\ selectedConversationId' \in GroupIdsOf(messengerInfo') \cup {0}
          /\ i # 0 =>
               selectedConversationId' =
                 IF i > 1 THEN groups[i - 1].id
                 ELSE IF Len(groups) > 1 THEN groups[i + 1].id
                 ELSE 0]_vars

\* the selected group, first of several in the roster, was deleted
C9_Witness ==
  /\ lastOp.op = "deleteGroup"
  /\ lastOp.target = lastOp.id
  /\ lastOp.n = 0
  /\ selectedConversationId \in GroupIdsOf(messengerInfo)

\* C10: the result of a load never replaces a stored Conversation that came
\* from a load of the same id started later.
C10_NoStaleOverwrite ==
  lastOp.op = "loadStored" => ~lastOp.stale

\* C11: for every conversation with a roster entry and a loaded Conversation
\* the roster unreadCount equals the number of unread messages of the
\* Conversation.
C11_UnreadCountMatches ==
  \A id \in Loaded :
    HasInfo(messengerInfo, id) =>
      UnreadCountOf(messengerInfo, id) = Len(getUnreadIds(conversations[id]))

RosterIds(info) == {RosterAll(info)[i].id : i \in 1..Len(RosterAll(info))}

\* C12: a roster entry, once present, stays in the roster after every step
\* other than a successful deleteGroup of that entry.
C12_EntryStays ==
  [][\A id \in RosterIds(messengerInfo) \ RosterIds(messengerInfo') :
       lastOp'.op = "deleteGroup" /\ lastOp'.id = id]_vars

\* C12 as amended: a roster entry stays in the roster after every step
\* other than a successful deleteGroup of that entry and the completion of a
\* roster load, which makes the roster the reply; deleteGroup removes no other
\* entry, and an inbound message for an unknown conversation removes none.
C12_EntryStaysUntilReplaced ==
  [][/\ \A id \in RosterIds(messengerInfo) \ RosterIds(messengerInfo') :
          \/ lastOp'.op = "deleteGroup" /\ lastOp'.id = id
          \/ lastOp'.op = "messengerInfoLoaded"
     /\ lastOp'.op = "updateMessage" => messengerInfo' = messengerInfo]_vars

\* an inbound message for a conversation without roster entry has started
\* a reload of the roster, whose entries are all still there
C12_Witness ==
  /\ lastOp.op = "updateMessage"
  /\ messengerInfo.loaded
  /\ ~HasInfo(messengerInfo, lastOp.id)
  /\ \E t \in DOMAIN tasks : t.kind = "info"
  /\ {1, 3} \subseteq RosterIds(messengerInfo)
  /\ 4 \notin RosterIds(messengerInfo)

\* C13: an updateTypingStatus call is issued only when the window (5 s) since
\* the last issued call is over; a call made inside the window issues none
\* at the time of the call, and none is issued for it when the window ends.
C13_DroppedNotQueued ==
  [][/\ lastOp'.op \in {"updateTypingStatus", "throttleTimer"} =>
          (lastOp'.issued => typingThrottle.sinceInvoke >= THROTTLE_MS)
     /\ lastOp'.op = "throttleTimer" => ~lastOp'.issued]_vars

\* C14: initSocket(url, userId) called while a channel for the same userId
\* exists changes nothing: no channel is opened, no handlers are bound, the
\* channel and the token subscription are as before.
C14_SameUserNoop ==
  [][(lastOp'.op = "initSocket" /\ socket.userId # 0 /\ socket.userId = lastOp'.id) =>
       UNCHANGED <<messengerInfo, conversations, selectedConversationId, isLoading,
                   messageForReply, messageForEdit,
                 selectedMessages, ui, history, searchVars, contactVars, mediaVars, socket, typingTimer, typingThrottle, tasks,
                   jobs, now>>]_vars

\* initSocket was called for the user of the existing channel
C14_Witness ==
  /\ lastOp.op = "initSocket"
  /\ lastOp.again
  /\ socket.userId = lastOp.id
  /\ socket.chan = 2

\* C15: at most one token subscription is live; once a channel exists
\* exactly one is, the handlers are bound to the current channel, and a token
\* change causes exactly one setAccessToken call, on the current channel.
C15_OneTokenSubscription ==
  /\ socket.observers <= 1
  /\ socket.chan # 0 => (socket.observers = 1 /\ socket.handlers = socket.chan)
  /\ (lastOp.op = "tokenChange" /\ socket.chan # 0) =>
       (lastOp.n = 1 /\ lastOp.id = socket.chan)

\* the token changed after the channel was replaced for another user
C15_Witness ==
  /\ lastOp.op = "tokenChange"
  /\ socket.chan >= 2
  /\ lastOp.n = 1

\* C16: after setMessageForReply(m) the reply target is m, the edit target
\* is null, no message is selected and select mode and forward mode are off.
C16_ReplyClearsOthers ==
  [][lastOp'.op = "setMessageForReply" =>
       /\ messageForReply' = SrvId(lastOp'.id)
       /\ messageForEdit' = NoId
       /\ selectedMessages' = <<>>
       /\ ~ui'.selectMode /\ ~ui'.forwardMode]_vars

\* setMessageForReply ran with an edit target, a selection and both modes on
C16_Witness ==
  /\ lastOp.op = "setMessageForReply"
  /\ lastOp.issued
  /\ messageForReply = SrvId(lastOp.id)

\* C17: when createNewGroup succeeds and when sendInviteMsgToContacts
\* succeeds, contactsForAction and the contacts store's selected contacts are
\* both empty afterwards
C17_StagingCleared ==
  [][(\/ lastOp'.op = "createNewGroupComplete" /\ lastOp'.issued
      \/ lastOp'.op = "inviteSent")
       => contactsForAction' = <<>> /\ selectedContacts' = <<>>]_vars

\* number of times m occurs in s
Occurrences(s, m) == Cardinality({i \in 1..Len(s) : s[i] = m})

\* C18: for the selected conversation conversationMessages returns the
\* conversation's messages and the sendingMessages entries of the selected
\* conversation, each exactly once and nothing else, newest first, and reading
\* it leaves the stored messages as they are
C18_ViewIsSortedUnion ==
  [][lastOp'.op = "conversationMessages" =>
       LET view == lastOp'.msgs
           stored == conversations[selectedConversationId].messages
           mine == {i \in 1..Len(sendingMessages) :
                      sendingMessages[i].conv = selectedConversationId}
       IN /\ \A m \in Range(view) \cup Range(stored) \cup Range(sendingMessages) :
               Occurrences(view, m) =
                 Occurrences(stored, m)
                   + Cardinality({i \in mine : sendingMessages[i] = m})
          /\ \A i \in 1..Len(view), j \in 1..Len(view) :
               i < j => momentOf(view[i]) >= momentOf(view[j])
          /\ conversations' = conversations
          /\ sendingMessages' = sendingMessages]_vars

\* the view was read with a stored message older than a still-sending one of
\* the selected conversation behind it, and an entry of another conversation
C18_Witness ==
  /\ lastOp.op = "conversationMessages"
  /\ Len(lastOp.msgs) = 3
  /\ \E i \in 1..Len(sendingMessages) :
       sendingMessages[i].conv # selectedConversationId
  /\ \E i \in 1..Len(sendingMessages) :
       /\ sendingMessages[i].conv = selectedConversationId
       /\ \E k \in 1..Len(conversations[selectedConversationId].messages) :
            conversations[selectedConversationId].messages[k].date
              < sendingMessages[i].date
  /\ lastOp.msgs[1].isSendingMessage

\* C19: every value of the upload-progress map is at most 100 in every
\* reachable state; sendMessageWithMedias creates the entry of its temporary
\* message id at 0; updateFileUploadProgress(key, v) stores min(v, 100) for a
\* tracked key and leaves the map as it is for a key that is not tracked
C19_ProgressAtMost100 ==
  /\ [](\A k \in DOMAIN filesUploadingProgress : filesUploadingProgress[k] <= 100)
  /\ [][/\ lastOp'.op = "sendMessageWithMedias" =>
             /\ lastOp'.confirms \in DOMAIN filesUploadingProgress'
             /\ filesUploadingProgress'[lastOp'.confirms] = 0
        /\ lastOp'.op = "updateFileUploadProgress" =>
             IF lastOp'.confirms \in DOMAIN filesUploadingProgress
               THEN filesUploadingProgress' =
                      [filesUploadingProgress EXCEPT
                         ![lastOp'.confirms] = Min(lastOp'.n, 100)]
               ELSE filesUploadingProgress' = filesUploadingProgress]_vars

\* a progress above 100 was reported for a tracked upload, while another key
\* is not tracked
C19_Witness ==
  /\ lastOp.op = "updateFileUploadProgress"
  /\ lastOp.n > 100
  /\ lastOp.confirms \in DOMAIN filesUploadingProgress
  /\ filesUploadingProgress[lastOp.confirms] = 100
  /\ \E k \in TmpIds : k \notin DOMAIN filesUploadingProgress

\* the suspended loads
Loads(ts) == Keep(ts, LAMBDA t : t.kind = "load")

\* C20: setSelectedConversationId(id) sets selectedConversationId to id at
\* once; for a conversation that is loaded already it starts no load; when
\* it goes on after a successful load, conversation id is stored, all its
\* messages are read and its roster entry counts 0 unread; with no id it
\* only clears selectedConversationId and every Conversation stays stored
C20_SelectLoadsOnDemand ==
  [][/\ lastOp'.op = "setSelectedConversationId" =>
          /\ selectedConversationId' = lastOp'.id
          /\ DOMAIN conversations' = DOMAIN conversations
          /\ jobs' = jobs
          /\ Loads(tasks') # Loads(tasks) =>
               lastOp'.id # 0 /\ lastOp'.id \notin Loaded
          /\ lastOp'.id = 0 =>
               /\ conversations' = conversations
               /\ messengerInfo' = messengerInfo
               /\ tasks' = tasks
     /\ lastOp'.op = "messengerInfoLoaded" =>
          (Loads(tasks') # Loads(tasks) => selectedConversationId' \notin Loaded)
     /\ lastOp'.op = "selectContinue" =>
          /\ lastOp'.id \in DOMAIN conversations'
          /\ \A m \in Range(conversations'[lastOp'.id].messages) : ~m.unread
          /\ UnreadCountOf(messengerInfo', lastOp'.id) = 0]_vars

\* the selection went on after the load of a conversation that was not
\* loaded, with an unread message in the reply and unread counted in the
\* roster
C20_Witness ==
  /\ lastOp.op = "selectContinue"
  /\ lastOp.issued
  /\ selectedConversationId = lastOp.id
  /\ conversations[lastOp.id].messages # <<>>
  /\ HasInfo(messengerInfo, lastOp.id)

OlderLoads(id) ==
  {t \in DOMAIN tasks :
     t.kind = "load" /\ t.id = id /\ t.limit > MSGS_REQUEST_LIMIT}

\* their getConversation calls, up to the point where the result is stored
OlderJobs(js, id) ==
  {j \in js : j.id = id /\ j.limit > MSGS_REQUEST_LIMIT}

\* C22: from the start of a loadOlderMessages(id) call that goes on to load
\* until that load is completed, a further loadOlderMessages(id) call changes
\* no state and leads to no transport call: at most one older-messages load
\* of a conversation is outstanding
C22_OneOlderLoad ==
  [][/\ (lastOp'.op = "loadOlderMessages" /\ OlderLoads(lastOp'.id) # {}) =>
          UNCHANGED <<messengerInfo, conversations, selectedConversationId,
                      isLoading, jobs>>
     /\ \A id \in ConvIds : Cardinality(OlderJobs(jobs', id)) <= 1]_vars

\* C23: paging back a loaded conversation of a finite server history, every
\* call awaited and answered: each call that loads asks for the local count
\* plus 30, allMessagesFetched becomes true in the end and stays true, and
\* from then on a call issues no request
C23_OlderLoadsTerminate ==
  /\ [][(lastOp'.op = "loadOlderMessages" /\ lastOp'.issued) =>
          /\ lastOp'.limit = Len(conversations[1].messages) + MSGS_REQUEST_LIMIT
          /\ ~conversations[1].allMessagesFetched]_vars
  /\ (1 \in Loaded) ~> (1 \in Loaded /\ conversations[1].allMessagesFetched)
  /\ [][(1 \in Loaded /\ conversations[1].allMessagesFetched) =>
          /\ conversations'[1].allMessagesFetched
          /\ UNCHANGED <<tasks, jobs, conversations, isLoading>>]_vars

\* the whole history of 61 messages was fetched page by page and a further
\* call was made
C23_Witness ==
  /\ 1 \in Loaded /\ conversations[1].allMessagesFetched
  /\ history[1] = 2 * MSGS_REQUEST_LIMIT + 1
  /\ Len(conversations[1].messages) = history[1]
  /\ lastOp.op = "loadOlderMessages" /\ ~lastOp.issued
  /\ Awaited
\* the peer whose pushes are applied to the loaded conversation id
PeerOf(id) == IF conversations[id].status.present THEN conversations[id].status.userId ELSE 0

Temporary(msgs) == {m \in Range(msgs) : m.isSendingMessage}

\* C25: a temporary message appended by sendMessage is still in the message
\* list of its conversation after the result of a loadConversation or
\* loadOlderMessages of that conversation has been stored.
C25_LoadKeepsTemporary ==
  [][(lastOp'.op = "loadStored" /\ lastOp'.id \in Loaded) =>
       Temporary(MessagesOf(conversations, lastOp'.id))
         \subseteq Temporary(MessagesOf(conversations', lastOp'.id))]_vars
\* C26: when addGroupMember(g, m) or removeGroupMember(g, m) has succeeded
\* and g is loaded, m has joined or left the member list of Conversation g,
\* whatever the selection is, and no other conversation and no roster entry
\* of another conversation has changed.
C26_MembersOfTheGroup ==
  [][(lastOp'.op \in {"memberAdded", "memberRemoved"} /\ lastOp'.id \in Loaded) =>
       LET g == lastOp'.id
       IN /\ conversations'[g].members =
               IF lastOp'.op = "memberAdded"
                 THEN conversations[g].members \cup {lastOp'.n}
                 ELSE conversations[g].members \ {lastOp'.n}
          /\ \A d \in Loaded \ {g} : conversations'[d] = conversations[d]
          /\ \A d \in RosterIds(messengerInfo) \ {g} :
               byId(messengerInfo', d) = byId(messengerInfo, d)]_vars
\* the identifiers of the staged contacts: the added contacts go by their
\* ids, the selected contacts by 'contact-' and their ids
AddedIds(cs) == [i \in 1..Len(cs) |-> IdPiece(cs[i], 0)]

SelectedIds(cs) == [i \in 1..Len(cs) |-> IdPiece(cs[i], 1)]

\* the identifiers with one comma between each two of them
CommaSeparated(pieces) ==
  [i \in 1..(IF pieces = <<>> THEN 0 ELSE 2 * Len(pieces) - 1) |->
     IF i % 2 = 1 THEN pieces[(i + 1) \div 2] ELSE Comma]

\* C27: the recipients createNewGroup and sendInviteMsgToContacts send are
\* the identifiers of the staged contacts, one for each, separated by single
\* commas, with no comma in front of the first or behind the last, whichever
\* of the two staging sets is empty.
C27_RecipientsWellFormed ==
  [][/\ lastOp'.op = "createNewGroup" =>
          lastOp'.msgs = CommaSeparated(AddedIds(contactsForAction)
                                          \o SelectedIds(selectedContacts))
     /\ lastOp'.op = "sendInviteMsgToContacts" =>
          lastOp'.msgs = CommaSeparated(SelectedIds(selectedContacts)
                                          \o AddedIds(contactsForAction))]_vars
\* C28: at most one of messageForReply and messageForEdit is set
C28_OneComposeTarget == messageForReply = NoId \/ messageForEdit = NoId
\* C29: when deleteGroup(g) succeeds while g is not the selected
\* conversation, the selection stays as it is, no load and no marking as read
\* is started (no Conversation changes, no call is added), and the roster
\* changes only by losing the entry of g.
C29_DeleteOfUnselectedGroup ==
  [][(lastOp'.op = "deleteGroup" /\ selectedConversationId # lastOp'.id) =>
       /\ selectedConversationId' = selectedConversationId
       /\ conversations' = conversations
       /\ \A t \in DOMAIN tasks' : CopiesIn(t, tasks') <= CopiesIn(t, tasks)
       /\ messengerInfo' =
            [messengerInfo EXCEPT !.groups = RemainingGroups(@, lastOp'.id)]]_vars
\* C30: markConversationAsRead(id) for an id of the roster that has no loaded
\* Conversation ends without an error, leaves the unreadCount of the roster
\* entry at 0 and starts no call.
C30_ReadOfUnloadedConversation ==
  [][(/\ lastOp'.op \in {"markConversationAsRead", "markConversationAsReadThrows"}
      /\ lastOp'.id \notin Loaded
      /\ HasInfo(messengerInfo, lastOp'.id)) =>
       /\ lastOp'.op = "markConversationAsRead"
       /\ UnreadCountOf(messengerInfo', lastOp'.id) = 0
       /\ tasks' = tasks]_vars
\* the identifiers of a call that belong to selected contacts
OfSelected(msgs) == {i \in 1..Len(msgs) : msgs[i] # Comma /\ msgs[i].prefixes > 0}

\* C31: addAllMembersToGroup and sendInviteMsgToContacts leave the ids of the
\* selected contacts as they are, and every identifier they send for a
\* selected contact carries 'contact-' exactly once, also when the operation
\* runs again on the same staged contacts.
C31_SelectedIdsKept ==
  [][lastOp'.op \in {"addAllMembersToGroup", "sendInviteMsgToContacts"} =>
       /\ selectedContacts' = selectedContacts
       /\ \A i \in OfSelected(lastOp'.msgs) : lastOp'.msgs[i].prefixes = 1]_vars
====
